---------------------------- MODULE Spec2Model ----------------------------
(***************************************************************************)
(* Model of the ScriptySphere service worker (src/unnamed/part_000): the   *)
(* request classification of its fetch handler, its three caching          *)
(* strategies, its install and activate handlers and the cache storage     *)
(* they act on.                                                            *)
(*                                                                         *)
(* Strings of the program that the code inspects character by character    *)
(* (pathnames, URL schemes) are sequences of one-character strings, so     *)
(* that startsWith, endsWith, includes and the extension regular           *)
(* expression are computed the way the code computes them.                 *)
(***************************************************************************)
EXTENDS Integers, Sequences, FiniteSets, TLC

VARIABLES
    \* --- request classification (fetch handler, pure part) ---
    ev,          \* the fetch event being classified, or NoEvent
    responded,   \* the strategies handed to event.respondWith for ev, in order
    \* --- worker lifecycle and cache storage ---
    swState,     \* "parsed" | "installed" | "activated"
    install,     \* what the install handler did: [outcome, promise, skipWaiting]
    activation,  \* what the activate handler did: [ran, before, after, claimed]
    caches,      \* CacheStorage: caches in creation order, each [name, entries]
    dynFill,     \* number of older entries of the dynamic partition for URLs outside Requested
    netVer,      \* version of the content the origin server currently serves
    req,         \* the strategy call in progress, or NoReq
    bg,          \* promises nobody awaits: pending cache.put calls, SWR revalidation fetches
    done,        \* the last strategy call that settled, with what it did
    nEvents,     \* fetch events dispatched so far
    \* --- page scripts ---
    md,          \* the MembersDirectory object and what it rendered
    blog,        \* the BlogSystem object and what it rendered
    lang,        \* the language each language manager holds, and the document's
    search,      \* the SiteSearch object, its timers and what it rendered
    forms,       \* the page's form, its fields, its timers and its stored draft
    tr,          \* the loaded translation documents and the last lookup
    an,          \* the Analytics shim, the consent it saw and what it delivered
    tm,          \* the ThemeManager and the system colour scheme
    store,       \* localStorage and sessionStorage, and how the last call ended
    boot         \* the PartialsLoader with the page's includes, and the start-up of the app

classifyVars == <<ev, responded>>
workerVars ==
    <<swState, install, activation, caches, dynFill, netVer, req, bg, done, nEvents>>
siteVars == <<tr, an, tm, store, boot>>

pageVars == <<md, blog, lang, search, forms, tr, an, tm, store, boot>>
vars ==
    <<ev, responded, swState, install, activation, caches, dynFill, netVer, req, bg, done,
      nEvents, md, blog, lang, search, forms, tr, an, tm, store, boot>>

-----------------------------------------------------------------------------
(* The objects of the page scripts as their constructors leave them.       *)

\* MembersDirectory constructor (members.js): empty lists, page 1, no
\* filter, sort by name; init() has been called and awaits loadData().
\* grid, noResults and pagination are what the page shows: the window of
\* records rendered, whether the no-results block is shown, and the page
\* count the pagination control was rendered for (0 when it is hidden).
\* divisionOptions, districtOptions and upazilaOptions are the values the
\* location selects offer; searchTimeout is the text awaiting the timeout of
\* the search box.  lastOp and lastEvent name the method that rendered last
\* and the event that called it ("load", "division" or "district" for a
\* change of that select, "filter" for any other change of search, filter
\* or sort, "page" for a pagination click); hadDependents tells whether that event
\* found a dependent filter set (a district or upazila at a division
\* change, an upazila at a district change); fromPage is the page that was
\* current when that event arrived.  clickListeners counts the click
\* listeners on the pagination container and goToPageCalls the calls of
\* goToPage the last click on a pagination button made.
NewMembersDirectory ==
    [phase |-> "loading", members |-> <<>>, filteredMembers |-> <<>>, currentPage |-> 1,
     filters |-> [search |-> <<>>, division |-> <<>>, district |-> <<>>,
                  upazila |-> <<>>, role |-> <<>>],
     sortBy |-> "name", grid |-> <<>>, noResults |-> FALSE, pagination |-> 0,
     divisionOptions |-> {}, districtOptions |-> {}, upazilaOptions |-> {},
     pageButtons |-> {}, searchTimeout |-> "none", lastOp |-> "constructor",
     lastEvent |-> "none", hadDependents |-> FALSE, fromPage |-> 1,
     clickListeners |-> 0, goToPageCalls |-> 0]

\* A page without a members directory.
NoMembersDirectory == [NewMembersDirectory EXCEPT !.phase = "absent"]

\* BlogSystem constructor (analytics.js): no posts, page 1, no category;
\* init() has been called and awaits loadPosts().  grid, pagination and
\* pageButtons are what the page shows, lastOp and fromPage the method
\* that rendered last and the page that was current when it was called, as
\* for the members directory; returned is what the last query method
\* returned.
NewBlogSystem ==
    [phase |-> "loading", posts |-> <<>>, filteredPosts |-> <<>>, currentPage |-> 1,
     currentCategory |-> <<>>, grid |-> <<>>, pagination |-> 0, pageButtons |-> {},
     lastOp |-> "constructor", fromPage |-> 1, returned |-> <<>>,
     clickListeners |-> 0, goToPageCalls |-> 0]

\* A page without a blog listing.
NoBlogSystem == [NewBlogSystem EXCEPT !.phase = "absent"]

\* The languages of the site.
Languages == {"en", "bn"}

\* Both language managers (I18nManager of i18n.js, I18n of theme.js) and
\* the document on the language l.
LangAt(l) == [i18n |-> l, theme |-> l, document |-> l]

\* SiteSearch constructor (analytics.js): no index, no Fuse structure,
\* language 'en', an empty cache; init() has been called and awaits
\* loadSearchIndex().  cache is the set of [key, results] pairs of the
\* Map in insertion order; pending is the performSearch call waiting for
\* loadSearchIndex(); input and timers are the value of the search input
\* and the number of timeouts set for it and not yet fired; burst and runs
\* count the input events of the running burst and the searches its
\* timeouts have started; shown is what the results
\* container shows, and sinceSwitch whether it was rendered after the last
\* language switch.
NewSiteSearch ==
    [phase |-> "loading", searchIndex |-> {},
     fuse |-> [built |-> FALSE, docs |-> {}], currentLanguage |-> "en",
     isLoading |-> TRUE, cache |-> <<>>,
     pending |-> [active |-> FALSE, query |-> <<>>, cacheKey |-> <<"en", <<>>>>],
     input |-> <<>>, timers |-> 0, burst |-> 0, runs |-> 0,
     shown |-> [kind |-> "empty", items |-> {}], sinceSwitch |-> FALSE]

\* A page without site search.
NoSiteSearch == [NewSiteSearch EXCEPT !.phase = "absent", !.isLoading = FALSE]

\* A page without a form: nothing rendered, nothing stored.  layout is the
\* form as the page renders it, state the value and checkedness of each
\* field now, storage the item of the form's draft in sessionStorage,
\* original the fields as they were at the last save, and timers the
\* auto-save timeouts set and not yet fired; spam is the form's data-spam
\* attribute.  i18n is the class of the object at window.i18n ("none"
\* without one); button is the submit button, its label being the one of
\* the page's markup ("original"), the busy one or the idle one the
\* handlers write back; threw tells whether an exception left the last
\* submit handler; posts counts the POSTs the last submit issued; toast is
\* the kind of the message it showed last.
NoForm ==
    [phase |-> "absent", layout |-> [name |-> "", fields |-> <<>>], state |-> <<>>,
     storage |-> [present |-> FALSE, data |-> <<>>], original |-> <<>>,
     timers |-> 0, spam |-> FALSE, lastOp |-> "none",
     i18n |-> "none", button |-> [label |-> "original", disabled |-> FALSE],
     threw |-> FALSE, posts |-> 0, toast |-> "none"]

\* No translation document is loaded and nothing has been looked up.
\* docs holds, per language, the document as the manager keeps it; impl
\* is the manager asked last, key the key path it was asked, result what
\* it returned.
NoTranslator ==
    [phase |-> "absent",
     docs |-> [l \in Languages |-> [t |-> "undefined", v |-> "", props |-> <<>>]],
     impl |-> "none", key |-> <<>>, result |-> [t |-> "none", v |-> ""]]

\* A page without the analytics shim.  provider is the provider the
\* constructor sets; initialized and consentGiven are the fields of the
\* shim; umami tells whether the Umami script has defined window.umami;
\* notified is the detail of the last consent-change notification;
\* delivered is where the last call delivered an event to, if anywhere.
NoAnalytics ==
    [phase |-> "absent", provider |-> "plausible", initialized |-> FALSE,
     consentGiven |-> FALSE, umami |-> FALSE, notified |-> "none",
     delivered |-> "none", lastOp |-> "none"]

\* A page without the theme manager.  currentTheme is the field of the
\* manager; system is the colour scheme the operating system prefers;
\* manual tells whether the visitor has toggled the theme since the page
\* loaded or since the last resetToSystem.
NoThemeManager ==
    [phase |-> "absent", currentTheme |-> "light", system |-> "light",
     manual |-> FALSE, lastOp |-> "none"]

\* localStorage and sessionStorage of a new tab: no item in either; the
\* event buffers are kept by the number of events they hold, 0 for no
\* item.  throws tells whether access to the stores throws; call is the
\* last storage operation called and whether an exception left it.
EmptyStore ==
    [throws |-> FALSE,
     items |-> [key \in {"cookie-consent", "preferred-theme", "preferred-language",
                         "ss-language", "form-draft-contact"} |-> "null"],
     buffers |-> [key \in {"simple-analytics", "form-analytics", "search-analytics"} |-> 0],
     call |-> [op |-> "none", threw |-> FALSE]]

\* The names of the partials the pages include.
PartialNames == {"header", "cta"}

\* A page before its PartialsLoader and its ScriptySphereApp exist.
\* elements are the page's [data-include] elements, each with the name it
\* includes, where its load stands and the markup it holds; cache is the
\* loader's Map by the names it holds; fetches counts the requests made
\* for each partial; loads counts the calls of loadPartials.  app is where
\* the start-up of the application stands, interval and timeout tell
\* whether the polling timer and the 5-second timeout of waitForPartials
\* are set, resolvedBy what resolved its promise, appLoaded how often
\* 'appLoaded' was dispatched.
NoBoot ==
    [loader |-> "absent", elements |-> <<>>, cache |-> {},
     fetches |-> [name \in PartialNames |-> 0], loads |-> 0,
     app |-> "absent", interval |-> FALSE, timeout |-> FALSE,
     resolvedBy |-> "none", isLoaded |-> FALSE, appLoaded |-> 0]

\* Translations, analytics and theme manager have not run.
SiteIdle ==
    /\ tr = NoTranslator
    /\ an = NoAnalytics
    /\ boot = NoBoot
    /\ tm = NoThemeManager
    /\ store = EmptyStore

\* No page script has run.
PageIdle ==
    /\ md = NoMembersDirectory
    /\ blog = NoBlogSystem
    /\ lang = LangAt("en")
    /\ search = NoSiteSearch
    /\ forms = NoForm
    /\ SiteIdle

-----------------------------------------------------------------------------
(* String helpers: String.prototype.startsWith / endsWith / includes.      *)

StartsWith(s, p) ==
    /\ Len(p) <= Len(s)
    /\ SubSeq(s, 1, Len(p)) = p

EndsWith(s, p) ==
    /\ Len(p) <= Len(s)
    /\ SubSeq(s, Len(s) - Len(p) + 1, Len(s)) = p

Includes(s, p) ==
    \E i \in 1..(Len(s) - Len(p) + 1) : SubSeq(s, i, i + Len(p) - 1) = p

-----------------------------------------------------------------------------
(* The URLs of the model.  Hostname "self" is self.location.hostname.      *)

Urls ==
    {"root", "offline", "mainJs", "membersJson", "headerPartial",
     "manifestJson", "apiContact", "about", "filePdf", "jsonBak",
     "logoPng", "assetsDir", "cdnLib", "cdnRoot", "cdnPdf",
     "cdnAssetsDir"}

Hostname(u) ==
    IF u \in {"cdnLib", "cdnRoot", "cdnPdf", "cdnAssetsDir"} THEN "cdn" ELSE "self"

SelfHostname == "self"

Pathname(u) ==
    CASE u = "root" -> <<"/">>   \* /
      [] u = "offline" -> <<"/", "o", "f", "f", "l", "i", "n", "e", ".", "h", "t", "m", "l">>   \* /offline.html
      [] u = "mainJs" -> <<"/", "a", "s", "s", "e", "t", "s", "/", "j", "s", "/", "m", "a", "i", "n", ".", "j", "s">>   \* /assets/js/main.js
      [] u = "membersJson" -> <<"/", "a", "s", "s", "e", "t", "s", "/", "d", "a", "t", "a", "/", "m", "e", "m", "b", "e", "r", "s", ".", "j", "s", "o", "n">>   \* /assets/data/members.json
      [] u = "headerPartial" -> <<"/", "p", "a", "r", "t", "i", "a", "l", "s", "/", "h", "e", "a", "d", "e", "r", ".", "h", "t", "m", "l">>   \* /partials/header.html
      [] u = "manifestJson" -> <<"/", "m", "a", "n", "i", "f", "e", "s", "t", ".", "j", "s", "o", "n">>   \* /manifest.json
      [] u = "apiContact" -> <<"/", "a", "p", "i", "/", "c", "o", "n", "t", "a", "c", "t">>   \* /api/contact
      [] u = "about" -> <<"/", "a", "b", "o", "u", "t">>   \* /about
      [] u = "filePdf" -> <<"/", "d", "o", "c", "s", "/", "f", "i", "l", "e", ".", "p", "d", "f">>   \* /docs/file.pdf
      [] u = "jsonBak" -> <<"/", "d", "a", "t", "a", ".", "j", "s", "o", "n", ".", "b", "a", "k">>   \* /data.json.bak
      [] u = "logoPng" -> <<"/", "l", "o", "g", "o", ".", "p", "n", "g">>   \* /logo.png
      [] u = "assetsDir" -> <<"/", "a", "s", "s", "e", "t", "s", "/">>   \* /assets/
      [] u = "cdnLib" -> <<"/", "l", "i", "b", ".", "j", "s">>   \* /lib.js
      [] u = "cdnRoot" -> <<"/">>   \* /
      [] u = "cdnPdf" -> <<"/", "x", ".", "p", "d", "f">>   \* /x.pdf
      [] u = "cdnAssetsDir" -> <<"/", "a", "s", "s", "e", "t", "s", "/">>   \* /assets/

\* The alternatives of the extension regular expression of isStaticAsset.
StaticExtensions ==
    {<<".", "c", "s", "s">>,
     <<".", "j", "s">>,
     <<".", "p", "n", "g">>,
     <<".", "j", "p", "g">>,
     <<".", "j", "p", "e", "g">>,
     <<".", "w", "e", "b", "p">>,
     <<".", "s", "v", "g">>,
     <<".", "w", "o", "f", "f">>,
     <<".", "w", "o", "f", "f", "2">>,
     <<".", "t", "t", "f">>,
     <<".", "e", "o", "t">>,
     <<".", "i", "c", "o">>}

-----------------------------------------------------------------------------
(* Request classification: isStaticAsset, isAPIRequest, isPageRequest.     *)

isStaticAsset(u) ==
    \/ \E x \in StaticExtensions : EndsWith(Pathname(u), x)
    \/ StartsWith(Pathname(u), <<"/", "a", "s", "s", "e", "t", "s", "/">>)
    \/ StartsWith(Pathname(u), <<"/", "p", "a", "r", "t", "i", "a", "l", "s", "/">>)

isAPIRequest(u) ==
    \/ StartsWith(Pathname(u), <<"/", "a", "p", "i", "/">>)
    \/ Includes(Pathname(u), <<".", "j", "s", "o", "n">>)
    \/ Hostname(u) # SelfHostname

isPageRequest(u) ==
    \/ EndsWith(Pathname(u), <<"/">>)
    \/ EndsWith(Pathname(u), <<".", "h", "t", "m", "l">>)
    \/ (~Includes(Pathname(u), <<".">>) /\ Hostname(u) = SelfHostname)

-----------------------------------------------------------------------------
(* The fetch event listener.                                               *)

Methods == {"GET", "POST", "HEAD"}

Schemes == {"http", "https", "chrome-extension", "ftp"}

SchemeChars(s) ==
    CASE s = "http" -> <<"h", "t", "t", "p">>
      [] s = "https" -> <<"h", "t", "t", "p", "s">>
      [] s = "chrome-extension" ->
            <<"c", "h", "r", "o", "m", "e", "-", "e", "x", "t", "e", "n", "s", "i", "o", "n">>
      [] s = "ftp" -> <<"f", "t", "p">>

HostChars(h) ==
    IF h = "self" THEN <<"s", "i", "t", "e">> ELSE <<"c", "d", "n">>

\* event.request.url: the serialised URL of the request.
RequestUrl(scheme, u) ==
    SchemeChars(scheme) \o <<":", "/", "/">> \o HostChars(Hostname(u)) \o Pathname(u)

\* A plausible slip: the API test placed before the static-asset test.
FetchHandlerApiFirst(method, scheme, u) ==
    IF method # "GET" THEN <<>>
    ELSE IF ~StartsWith(RequestUrl(scheme, u), <<"h", "t", "t", "p">>) THEN <<>>
    ELSE IF isAPIRequest(u) THEN <<"networkFirstStrategy">>
    ELSE IF isStaticAsset(u) THEN <<"cacheFirstStrategy">>
    ELSE IF isPageRequest(u) THEN <<"staleWhileRevalidateStrategy">>
    ELSE <<"networkFirstStrategy">>

\* A plausible slip: independent if statements instead of the else-if chain.
FetchHandlerNoElse(method, scheme, u) ==
    IF method # "GET" THEN <<>>
    ELSE IF ~StartsWith(RequestUrl(scheme, u), <<"h", "t", "t", "p">>) THEN <<>>
    ELSE (IF isStaticAsset(u) THEN <<"cacheFirstStrategy">> ELSE <<>>)
         \o (IF isAPIRequest(u) THEN <<"networkFirstStrategy">> ELSE <<>>)
         \o (IF isPageRequest(u) THEN <<"staleWhileRevalidateStrategy">> ELSE <<>>)
         \o (IF ~isStaticAsset(u) /\ ~isAPIRequest(u) /\ ~isPageRequest(u)
                THEN <<"networkFirstStrategy">> ELSE <<>>)

\* The strategies the listener hands to event.respondWith, in call order
\* (the empty sequence: the listener returns without responding).
FetchHandler(method, scheme, u) ==
    IF method # "GET" THEN <<>>
    ELSE IF ~StartsWith(RequestUrl(scheme, u), <<"h", "t", "t", "p">>) THEN <<>>
    ELSE IF isStaticAsset(u) THEN <<"cacheFirstStrategy">>
    ELSE IF isAPIRequest(u) THEN <<"networkFirstStrategy">>
    ELSE IF isPageRequest(u) THEN <<"staleWhileRevalidateStrategy">>
    ELSE <<"networkFirstStrategy">>

NoEvent == [method |-> "", scheme |-> "", url |-> ""]

-----------------------------------------------------------------------------
(* Cache storage.  A cache is [name, entries]; entries is the cache's      *)
(* request/response list in insertion order, each [url, ver] (only         *)
(* successful responses are ever stored, so an entry needs no status).     *)
(* caches.keys() and caches.match() go through the caches in creation      *)
(* order.                                                                  *)

CACHE_NAME == "scriptysphere-v1.0.0"

STATIC_CACHE_NAME == "scriptysphere-static-v1"

DYNAMIC_CACHE_NAME == "scriptysphere-dynamic-v1"

\* The entries of the install manifest that are URLs of the model, in
\* manifest order.
STATIC_ASSETS == <<"root", "offline", "mainJs", "headerPartial", "manifestJson">>

\* maxEntries, as networkFirstStrategy passes it to cleanupCache.
DYNAMIC_MAX_ENTRIES == 100

NoVer == -1

RECURSIVE EntryVer(_, _)
\* cache.match(url) on one cache's entries: the stored version, or NoVer.
EntryVer(entries, u) ==
    IF entries = <<>> THEN NoVer
    ELSE IF Head(entries).url = u THEN Head(entries).ver
    ELSE EntryVer(Tail(entries), u)

HasCache(cs, n) == \E i \in 1..Len(cs) : cs[i].name = n

\* cache.match(request) on the cache named n.
CacheMatch(cs, n, u) ==
    IF HasCache(cs, n)
    THEN EntryVer(cs[CHOOSE i \in 1..Len(cs) : cs[i].name = n].entries, u)
    ELSE NoVer

RECURSIVE MatchAll(_, _)
\* caches.match(request): the first match over all caches, in creation order.
MatchAll(cs, u) ==
    IF cs = <<>> THEN NoVer
    ELSE IF EntryVer(Head(cs).entries, u) # NoVer THEN EntryVer(Head(cs).entries, u)
    ELSE MatchAll(Tail(cs), u)

\* caches.open(name): creates the cache when there is none of that name.
Open(cs, n) ==
    IF HasCache(cs, n) THEN cs ELSE Append(cs, [name |-> n, entries |-> <<>>])

\* cache.put(request, response): an entry for the same request is removed,
\* the new one is appended.
PutEntry(entries, u, v) ==
    Append(SelectSeq(entries, LAMBDA e : e.url # u), [url |-> u, ver |-> v])

Put(cs, n, u, v) ==
    [i \in 1..Len(cs) |->
        IF cs[i].name = n
        THEN [cs[i] EXCEPT !.entries = PutEntry(cs[i].entries, u, v)]
        ELSE cs[i]]

RECURSIVE PutAll(_, _, _, _)
\* cache.addAll(urls) when every fetch succeeded: one put per URL.
PutAll(cs, n, urls, v) ==
    IF urls = <<>> THEN cs
    ELSE PutAll(Put(cs, n, Head(urls), v), n, Tail(urls), v)

\* The entries of the dynamic partition: dynFill older entries for URLs no
\* modelled request asks for, then the entries of the cache record.
DynEntries(cs) ==
    IF HasCache(cs, DYNAMIC_CACHE_NAME)
    THEN cs[CHOOSE i \in 1..Len(cs) : cs[i].name = DYNAMIC_CACHE_NAME].entries
    ELSE <<>>

DynSize(cs, fill) == fill + Len(DynEntries(cs))

Max(a, b) == IF a >= b THEN a ELSE b

Min(a, b) == IF a <= b THEN a ELSE b

\* cleanupCache(DYNAMIC_CACHE_NAME, maxEntries): when cache.keys() is longer
\* than maxEntries, the first (oldest) keys beyond it are deleted.  The
\* result is [caches, fill].
cleanupCache(cs, fill, maxEntries) ==
    LET opened == Open(cs, DYNAMIC_CACHE_NAME)
        excess == Max(0, DynSize(opened, fill) - maxEntries)
        fromFill == Min(excess, fill)
        fromEntries == excess - fromFill
    IN  [caches |->
            [i \in 1..Len(opened) |->
                IF opened[i].name = DYNAMIC_CACHE_NAME
                THEN [opened[i] EXCEPT !.entries =
                        SubSeq(opened[i].entries, fromEntries + 1, Len(opened[i].entries))]
                ELSE opened[i]],
         fill |-> fill - fromFill]

-----------------------------------------------------------------------------
(* Responses.                                                              *)

Resp(u, v, s) == [url |-> u, ver |-> v, status |-> s]

\* new Response('Offline', { status: 503 })
Synthetic503 == Resp("", 0, 503)

NoResp == Resp("", 0, 0)

NetOutcomes == {"ok", "notok", "fail"}

-----------------------------------------------------------------------------
(* Bounds and the states the worker can start from.                        *)

\* Fetch events dispatched in one run.
MaxEvents == 2

\* Versions of its content the origin server goes through.
MaxVer == 2

\* The URLs fetch events ask for, once the worker is active.
Requested == {"mainJs", "root", "apiContact", "filePdf"}

\* Caches left by earlier deployments of the worker.
OldStaticCache ==
    [name |-> "scriptysphere-static-v0", entries |-> <<[url |-> "mainJs", ver |-> 0]>>]

OldVersionCache ==
    [name |-> CACHE_NAME, entries |-> <<[url |-> "mainJs", ver |-> 0]>>]

OldCurrentStatic ==
    [name |-> STATIC_CACHE_NAME,
     entries |-> [i \in 1..Len(STATIC_ASSETS) |-> [url |-> STATIC_ASSETS[i], ver |-> 0]]]

OldCurrentDynamic ==
    [name |-> DYNAMIC_CACHE_NAME, entries |-> <<[url |-> "root", ver |-> 0]>>]

\* Cache storage before the worker is installed: none (a first visit), the
\* caches of an earlier deployment under other names, or the partitions of
\* an earlier installation under the current names, the dynamic one full
\* (fill entries for other URLs and one for the root page).
PreviousStorage ==
    {[caches |-> <<>>, fill |-> 0],
     [caches |-> <<OldStaticCache, OldVersionCache>>, fill |-> 0],
     [caches |-> <<OldCurrentStatic, OldCurrentDynamic, OldStaticCache>>,
      fill |-> DYNAMIC_MAX_ENTRIES - 1]}

NoInstall == [outcome |-> "none", promise |-> "pending", skipWaiting |-> FALSE]

NoActivation == [ran |-> FALSE, before |-> <<>>, after |-> <<>>, claimed |-> FALSE]

\* A strategy call: what it was asked, where it stands and what it did.
NoReq ==
    [url |-> "", strategy |-> "", pc |-> "idle", kind |-> "", resp |-> NoResp,
     fetched |-> FALSE, lookup |-> "none", staticVer |-> NoVer, foundVer |-> NoVer,
     net |-> "none", netResp |-> NoResp, putIssued |-> FALSE, openFailed |-> FALSE,
     stored |-> FALSE, size |-> 0]

PutTask(n, u, v, o) ==
    [kind |-> "put", cache |-> n, url |-> u, ver |-> v, owner |-> o]

FetchTask(u, o) ==
    [kind |-> "fetch", cache |-> "", url |-> u, ver |-> 0, owner |-> o]

-----------------------------------------------------------------------------
(* Install and activate.                                                   *)

InstallOutcomes == {"openFails", "addAllFails", "ok"}

\* How the promise given to the install event's waitUntil settles: the
\* chain ends in a catch that logs and returns, so it is fulfilled whatever
\* happened before.
InstallPromise(outcome) == "fulfilled"

\* The install event listener, with what the platform does when the promise
\* given to waitUntil settles: fulfilled, the worker is installed; rejected,
\* it is discarded.
Install ==
    /\ swState = "parsed"
    /\ \E outcome \in InstallOutcomes :
          /\ caches' =
                CASE outcome = "openFails" -> caches
                  [] outcome = "addAllFails" -> Open(caches, STATIC_CACHE_NAME)
                  [] outcome = "ok" ->
                        PutAll(Open(caches, STATIC_CACHE_NAME), STATIC_CACHE_NAME,
                               STATIC_ASSETS, netVer)
          /\ install' = [outcome |-> outcome,
                         promise |-> InstallPromise(outcome),
                         skipWaiting |-> (outcome = "ok")]
          /\ swState' = IF InstallPromise(outcome) = "fulfilled"
                        THEN "installed" ELSE "redundant"
    /\ UNCHANGED <<activation, dynFill, netVer, req, bg, done, nEvents>>
    /\ UNCHANGED classifyVars
    /\ UNCHANGED pageVars

\* A plausible slip: the version cache name left out of the comparison.
KeptAtActivationNoVersion(cacheName) ==
    ~(cacheName # STATIC_CACHE_NAME /\ cacheName # DYNAMIC_CACHE_NAME)

\* The test of the activate listener, negated: the caches it does not delete.
KeptAtActivation(cacheName) ==
    ~(cacheName # STATIC_CACHE_NAME /\ cacheName # DYNAMIC_CACHE_NAME
        /\ cacheName # CACHE_NAME)

\* The activate event listener: caches.keys(), caches.delete for each name
\* that fails the test, then clients.claim().  caches.keys() and
\* caches.delete() are taken to succeed here.
Activate ==
    /\ swState = "installed"
    /\ caches' = SelectSeq(caches, LAMBDA c : KeptAtActivation(c.name))
    /\ activation' = [ran |-> TRUE, before |-> caches, after |-> caches',
                      claimed |-> TRUE]
    /\ swState' = "activated"
    /\ UNCHANGED <<install, dynFill, netVer, req, bg, done, nEvents>>
    /\ UNCHANGED classifyVars
    /\ UNCHANGED pageVars

\* The origin server publishes new content.
ServerUpdate ==
    /\ swState = "activated"
    /\ netVer < MaxVer
    /\ netVer' = netVer + 1
    /\ UNCHANGED <<swState, install, activation, caches, dynFill, req, bg, done,
                   nEvents>>
    /\ UNCHANGED classifyVars
    /\ UNCHANGED pageVars

-----------------------------------------------------------------------------
(* The fetch event listener on the active worker, and the strategies.      *)
(* A strategy is an async function: each action below runs it from one     *)
(* await to the next.  A cache storage call may reject (the \E over        *)
(* BOOLEAN at each call); a fetch ends "ok" (status 200), "notok" (a       *)
(* response that is not ok) or "fail" (the promise rejects).               *)

\* The strategy call settles: fulfilled with a response ("response"),
\* fulfilled with undefined ("undefined"), or rejected ("rejected").
Settle(r, k, rsp) ==
    /\ done' = [r EXCEPT !.pc = "settled", !.kind = k, !.resp = rsp]
    /\ req' = NoReq

FetchEvent ==
    /\ swState = "activated"
    /\ req = NoReq
    /\ nEvents < MaxEvents
    /\ \E u \in Requested :
          req' = [NoReq EXCEPT !.url = u,
                               !.strategy = FetchHandler("GET", "https", u)[1],
                               !.pc = "start"]
    /\ nEvents' = nEvents + 1
    /\ UNCHANGED <<swState, install, activation, caches, dynFill, netVer, bg, done>>
    /\ UNCHANGED classifyVars
    /\ UNCHANGED pageVars

\* A plausible slip: the test of the cached response inverted, so that a hit
\* goes on to the network.
cacheFirstLookupInverted ==
    /\ req.pc = "start"
    /\ req.strategy = "cacheFirstStrategy"
    /\ \E matchFails \in BOOLEAN :
          LET sv == CacheMatch(caches, STATIC_CACHE_NAME, req.url)
              fv == MatchAll(caches, req.url)
              r == [req EXCEPT !.staticVer = sv, !.foundVer = fv]
          IN  IF matchFails
              THEN Settle([r EXCEPT !.lookup = "failed", !.foundVer = NoVer],
                          "response", Synthetic503)
              ELSE IF fv = NoVer
              THEN Settle([r EXCEPT !.lookup = "miss"], "response", Resp(req.url, fv, 200))
              ELSE /\ req' = [r EXCEPT !.lookup = "hit", !.pc = "fetch"]
                   /\ done' = done
    /\ UNCHANGED <<swState, install, activation, caches, dynFill, netVer, bg, nEvents>>
    /\ UNCHANGED classifyVars
    /\ UNCHANGED pageVars

\* cacheFirstStrategy up to its return of the cached response:
\* await caches.match(request).
cacheFirstLookup ==
    /\ req.pc = "start"
    /\ req.strategy = "cacheFirstStrategy"
    /\ \E matchFails \in BOOLEAN :
          LET sv == CacheMatch(caches, STATIC_CACHE_NAME, req.url)
              fv == MatchAll(caches, req.url)
              r == [req EXCEPT !.staticVer = sv, !.foundVer = fv]
          IN  IF matchFails
              THEN Settle([r EXCEPT !.lookup = "failed", !.foundVer = NoVer],
                          "response", Synthetic503)
              ELSE IF fv # NoVer
              THEN Settle([r EXCEPT !.lookup = "hit"], "response", Resp(req.url, fv, 200))
              ELSE /\ req' = [r EXCEPT !.lookup = "miss", !.pc = "fetch"]
                   /\ done' = done
    /\ UNCHANGED <<swState, install, activation, caches, dynFill, netVer, bg, nEvents>>
    /\ UNCHANGED classifyVars
    /\ UNCHANGED pageVars

\* cacheFirstStrategy after a miss: await fetch(request); if the response
\* is ok, await caches.open(STATIC_CACHE_NAME) and cache.put (not awaited);
\* any exception ends in the catch, which returns the synthetic 503.
cacheFirstFetch ==
    /\ req.pc = "fetch"
    /\ req.strategy = "cacheFirstStrategy"
    /\ \E out \in NetOutcomes, openFails \in BOOLEAN :
          LET r == [req EXCEPT !.fetched = TRUE, !.net = out]
              rsp == Resp(req.url, netVer, IF out = "ok" THEN 200 ELSE 404)
          IN  CASE out = "fail" ->
                    /\ ~openFails
                    /\ Settle(r, "response", Synthetic503)
                    /\ UNCHANGED <<caches, bg>>
                [] out = "notok" ->
                    /\ ~openFails
                    /\ Settle([r EXCEPT !.netResp = rsp], "response", rsp)
                    /\ UNCHANGED <<caches, bg>>
                [] out = "ok" /\ openFails ->
                    /\ Settle([r EXCEPT !.netResp = rsp, !.openFailed = TRUE],
                              "response", Synthetic503)
                    /\ UNCHANGED <<caches, bg>>
                [] out = "ok" /\ ~openFails ->
                    /\ caches' = Open(caches, STATIC_CACHE_NAME)
                    /\ bg' = bg \cup {PutTask(STATIC_CACHE_NAME, req.url, netVer,
                                              "cacheFirstStrategy")}
                    /\ Settle([r EXCEPT !.netResp = rsp, !.putIssued = TRUE],
                              "response", rsp)
    /\ UNCHANGED <<swState, install, activation, dynFill, netVer, nEvents>>
    /\ UNCHANGED classifyVars
    /\ UNCHANGED pageVars

\* networkFirstStrategy, the try block up to the call of cleanupCache:
\* await fetch(request); if the response is ok, await
\* caches.open(DYNAMIC_CACHE_NAME) and cache.put (not awaited).  A failed
\* fetch or open throws into the catch block.
networkFirstFetch ==
    /\ req.pc = "start"
    /\ req.strategy = "networkFirstStrategy"
    /\ \E out \in NetOutcomes, openFails \in BOOLEAN :
          LET r == [req EXCEPT !.fetched = TRUE, !.net = out]
              rsp == Resp(req.url, netVer, IF out = "ok" THEN 200 ELSE 404)
          IN  CASE out = "fail" ->
                    /\ ~openFails
                    /\ req' = [r EXCEPT !.pc = "catch"]
                    /\ UNCHANGED <<caches, bg, done>>
                [] out = "notok" ->
                    /\ ~openFails
                    /\ Settle([r EXCEPT !.netResp = rsp], "response", rsp)
                    /\ UNCHANGED <<caches, bg>>
                [] out = "ok" /\ openFails ->
                    /\ req' = [r EXCEPT !.netResp = rsp, !.openFailed = TRUE, !.pc = "catch"]
                    /\ UNCHANGED <<caches, bg, done>>
                [] out = "ok" /\ ~openFails ->
                    /\ caches' = Open(caches, DYNAMIC_CACHE_NAME)
                    /\ bg' = bg \cup {PutTask(DYNAMIC_CACHE_NAME, req.url, netVer,
                                              "networkFirstStrategy")}
                    /\ req' = [r EXCEPT !.netResp = rsp, !.putIssued = TRUE,
                                        !.pc = "cleanup"]
                    /\ done' = done
    /\ UNCHANGED <<swState, install, activation, dynFill, netVer, nEvents>>
    /\ UNCHANGED classifyVars
    /\ UNCHANGED pageVars

\* networkFirstStrategy: await cleanupCache(DYNAMIC_CACHE_NAME, 100), then
\* return networkResponse.  cleanupCache catches its own exceptions.  The
\* call records whether the copy is in the dynamic partition, and the size
\* of the partition, as it returns.
networkFirstCleanup ==
    /\ req.pc = "cleanup"
    /\ req.strategy = "networkFirstStrategy"
    /\ \E cleanupFails \in BOOLEAN :
          LET res == IF cleanupFails
                     THEN [caches |-> caches, fill |-> dynFill]
                     ELSE cleanupCache(caches, dynFill, DYNAMIC_MAX_ENTRIES)
          IN  /\ caches' = res.caches
              /\ dynFill' = res.fill
              /\ Settle([req EXCEPT
                            !.stored = (CacheMatch(res.caches, DYNAMIC_CACHE_NAME, req.url)
                                            = req.netResp.ver),
                            !.size = DynSize(res.caches, res.fill)],
                        "response", req.netResp)
    /\ UNCHANGED <<swState, install, activation, netVer, bg, nEvents>>
    /\ UNCHANGED classifyVars
    /\ UNCHANGED pageVars

\* networkFirstStrategy, the catch block: await caches.match(request); with
\* no match, caches.match('/offline.html') for a page request, else the
\* synthetic 503.  lookup is "miss" when every lookup made went through and
\* the request had no match, "failed" when one rejected.
networkFirstCatch ==
    /\ req.pc = "catch"
    /\ req.strategy = "networkFirstStrategy"
    /\ \E matchFails \in BOOLEAN, offlineFails \in BOOLEAN :
          LET fv == MatchAll(caches, req.url)
              ov == MatchAll(caches, "offline")
          IN  IF matchFails
              THEN /\ ~offlineFails
                   /\ Settle([req EXCEPT !.lookup = "failed"], "rejected", NoResp)
              ELSE IF fv # NoVer
              THEN /\ ~offlineFails
                   /\ Settle([req EXCEPT !.lookup = "hit", !.foundVer = fv],
                             "response", Resp(req.url, fv, 200))
              ELSE IF isPageRequest(req.url)
              THEN IF offlineFails
                   THEN Settle([req EXCEPT !.lookup = "failed"], "rejected", NoResp)
                   ELSE IF ov # NoVer
                   THEN Settle([req EXCEPT !.lookup = "miss"], "response",
                               Resp("offline", ov, 200))
                   ELSE Settle([req EXCEPT !.lookup = "miss"], "undefined", NoResp)
              ELSE /\ ~offlineFails
                   /\ Settle([req EXCEPT !.lookup = "miss"], "response", Synthetic503)
    /\ UNCHANGED <<swState, install, activation, caches, dynFill, netVer, bg, nEvents>>
    /\ UNCHANGED classifyVars
    /\ UNCHANGED pageVars

\* A plausible slip: the network awaited before the cached response is
\* used (return await networkPromise || cachedResponse).
staleWhileRevalidateLookupAwaitsNetwork ==
    /\ req.pc = "start"
    /\ req.strategy = "staleWhileRevalidateStrategy"
    /\ \E openFails \in BOOLEAN, matchFails \in BOOLEAN, out \in NetOutcomes :
          LET opened == Open(caches, DYNAMIC_CACHE_NAME)
              cv == CacheMatch(opened, DYNAMIC_CACHE_NAME, req.url)
              rsp == Resp(req.url, netVer, IF out = "ok" THEN 200 ELSE 404)
          IN  IF openFails \/ matchFails
              THEN /\ Settle([req EXCEPT !.lookup = "failed"], "rejected", NoResp)
                   /\ UNCHANGED <<caches, bg>>
              ELSE IF cv # NoVer
              THEN /\ caches' = opened
                   /\ bg' = bg \cup
                            (IF out = "ok"
                             THEN {PutTask(DYNAMIC_CACHE_NAME, req.url, netVer,
                                           "staleWhileRevalidateStrategy")}
                             ELSE {})
                   /\ Settle([req EXCEPT !.lookup = "hit", !.foundVer = cv,
                                         !.fetched = TRUE, !.net = out],
                             "response",
                             IF out = "fail" THEN Resp(req.url, cv, 200) ELSE rsp)
              ELSE /\ caches' = opened
                   /\ req' = [req EXCEPT !.lookup = "miss", !.fetched = TRUE,
                                         !.net = "pending", !.pc = "await"]
                   /\ UNCHANGED <<bg, done>>
    /\ UNCHANGED <<swState, install, activation, dynFill, netVer, nEvents>>
    /\ UNCHANGED classifyVars
    /\ UNCHANGED pageVars

\* staleWhileRevalidateStrategy up to its return statement: await
\* caches.open(DYNAMIC_CACHE_NAME), await cache.match(request), then
\* fetch(request) is started.  With a cached response the call returns it;
\* the fetch goes on in the background.  Without one the call awaits
\* networkPromise.  Neither await is inside a try.
staleWhileRevalidateLookup ==
    /\ req.pc = "start"
    /\ req.strategy = "staleWhileRevalidateStrategy"
    /\ \E openFails \in BOOLEAN, matchFails \in BOOLEAN :
          LET opened == Open(caches, DYNAMIC_CACHE_NAME)
              cv == CacheMatch(opened, DYNAMIC_CACHE_NAME, req.url)
          IN  IF openFails
              THEN /\ ~matchFails
                   /\ Settle([req EXCEPT !.lookup = "failed", !.openFailed = TRUE],
                             "rejected", NoResp)
                   /\ UNCHANGED <<caches, bg>>
              ELSE IF matchFails
              THEN /\ caches' = opened
                   /\ Settle([req EXCEPT !.lookup = "failed"], "rejected", NoResp)
                   /\ UNCHANGED bg
              ELSE IF cv # NoVer
              THEN /\ caches' = opened
                   /\ bg' = bg \cup {FetchTask(req.url, "staleWhileRevalidateStrategy")}
                   /\ Settle([req EXCEPT !.lookup = "hit", !.foundVer = cv,
                                         !.fetched = TRUE, !.net = "pending"],
                             "response", Resp(req.url, cv, 200))
              ELSE /\ caches' = opened
                   /\ req' = [req EXCEPT !.lookup = "miss", !.fetched = TRUE,
                                         !.net = "pending", !.pc = "await"]
                   /\ UNCHANGED <<bg, done>>
    /\ UNCHANGED <<swState, install, activation, dynFill, netVer, nEvents>>
    /\ UNCHANGED classifyVars
    /\ UNCHANGED pageVars

\* staleWhileRevalidateStrategy without a cached response: await
\* networkPromise.  The then callback puts an ok response (not awaited) and
\* passes the response on; the catch callback returns cachedResponse, which
\* is undefined here.
staleWhileRevalidateAwait ==
    /\ req.pc = "await"
    /\ req.strategy = "staleWhileRevalidateStrategy"
    /\ \E out \in NetOutcomes :
          LET r == [req EXCEPT !.net = out]
              rsp == Resp(req.url, netVer, IF out = "ok" THEN 200 ELSE 404)
          IN  CASE out = "fail" ->
                    /\ Settle(r, "undefined", NoResp)
                    /\ UNCHANGED bg
                [] out = "notok" ->
                    /\ Settle([r EXCEPT !.netResp = rsp], "response", rsp)
                    /\ UNCHANGED bg
                [] out = "ok" ->
                    /\ bg' = bg \cup {PutTask(DYNAMIC_CACHE_NAME, req.url, netVer,
                                              "staleWhileRevalidateStrategy")}
                    /\ Settle([r EXCEPT !.netResp = rsp, !.putIssued = TRUE],
                              "response", rsp)
    /\ UNCHANGED <<swState, install, activation, caches, dynFill, netVer, nEvents>>
    /\ UNCHANGED classifyVars
    /\ UNCHANGED pageVars

\* The revalidation fetch of a staleWhileRevalidateStrategy call that has
\* returned its cached response settles: the then callback puts an ok
\* response (not awaited); nobody reads what the promise resolves to.
revalidationSettles ==
    /\ \E t \in bg, out \in NetOutcomes :
          /\ t.kind = "fetch"
          /\ bg' = (bg \ {t}) \cup
                   (IF out = "ok"
                    THEN {PutTask(DYNAMIC_CACHE_NAME, t.url, netVer, t.owner)}
                    ELSE {})
    /\ UNCHANGED <<swState, install, activation, caches, dynFill, netVer, req, done, nEvents>>
    /\ UNCHANGED classifyVars
    /\ UNCHANGED pageVars

\* A plausible slip: the revalidated response put into the static partition.
putTargetStatic(t) == STATIC_CACHE_NAME

\* The cache a pending cache.put writes to: the one the strategy opened.
putTarget(t) == t.cache

\* A cache.put that no strategy awaits settles: the entry is written, or the
\* promise rejects and nothing handles the rejection.
putSettles ==
    /\ \E t \in bg, putFails \in BOOLEAN :
          /\ t.kind = "put"
          /\ bg' = bg \ {t}
          /\ caches' = IF putFails THEN caches ELSE Put(caches, putTarget(t), t.url, t.ver)
    /\ UNCHANGED <<swState, install, activation, dynFill, netVer, req, done, nEvents>>
    /\ UNCHANGED classifyVars
    /\ UNCHANGED pageVars

-----------------------------------------------------------------------------
(* Specification of the worker: installed and activated over the storage   *)
(* earlier deployments left, then serving fetch events one at a time       *)
(* while the writes and revalidations of earlier events are still pending. *)

ClassifyIdle ==
    /\ ev = NoEvent
    /\ responded = <<>>

Init ==
    /\ ClassifyIdle
    /\ PageIdle
    /\ swState = "parsed"
    /\ install = NoInstall
    /\ activation = NoActivation
    /\ \E s \in PreviousStorage :
          /\ caches = s.caches
          /\ dynFill = s.fill
    /\ netVer = 1
    /\ req = NoReq
    /\ bg = {}
    /\ done = NoReq
    /\ nEvents = 0

Next ==
    \/ Install
    \/ Activate
    \/ ServerUpdate
    \/ FetchEvent
    \/ cacheFirstLookup
    \/ cacheFirstFetch
    \/ networkFirstFetch
    \/ networkFirstCleanup
    \/ networkFirstCatch
    \/ staleWhileRevalidateLookup
    \/ staleWhileRevalidateAwait
    \/ revalidationSettles
    \/ putSettles

Spec == Init /\ [][Next]_vars

-----------------------------------------------------------------------------
(* Specification of the classification alone: one fetch event at a time,   *)
(* drawn from every method, scheme and URL of the model.                   *)

WorkerIdle ==
    /\ swState = "parsed"
    /\ install = NoInstall
    /\ activation = NoActivation
    /\ caches = <<>>
    /\ dynFill = 0
    /\ netVer = 1
    /\ req = NoReq
    /\ bg = {}
    /\ done = NoReq
    /\ nEvents = 0

InitClassify ==
    /\ ev = NoEvent
    /\ responded = <<>>
    /\ WorkerIdle
    /\ PageIdle

ClassifyFetch ==
    /\ \E m \in Methods, s \in Schemes, u \in Urls :
          /\ ev' = [method |-> m, scheme |-> s, url |-> u]
          /\ responded' = FetchHandler(m, s, u)
    /\ UNCHANGED workerVars
    /\ UNCHANGED pageVars

NextClassify == ClassifyFetch

SpecClassify == InitClassify /\ [][NextClassify]_vars

Handled(e) ==
    /\ e # NoEvent
    /\ e.method = "GET"
    /\ e.scheme \in {"http", "https"}

MatchCount(u) ==
    Cardinality({p \in {"static", "api", "page"} :
        \/ p = "static" /\ isStaticAsset(u)
        \/ p = "api" /\ isAPIRequest(u)
        \/ p = "page" /\ isPageRequest(u)})

\* C1: every GET http(s) request is handed to exactly one strategy, chosen by
\* first match in the order static-asset test (cache-first), API test
\* (network-first), page test (stale-while-revalidate), else network-first;
\* other requests are not responded to.
C1_FirstMatchStrategy ==
    ev # NoEvent =>
        IF Handled(ev)
        THEN /\ Len(responded) = 1
             /\ isStaticAsset(ev.url) => responded[1] = "cacheFirstStrategy"
             /\ (~isStaticAsset(ev.url) /\ isAPIRequest(ev.url))
                    => responded[1] = "networkFirstStrategy"
             /\ (~isStaticAsset(ev.url) /\ ~isAPIRequest(ev.url) /\ isPageRequest(ev.url))
                    => responded[1] = "staleWhileRevalidateStrategy"
             /\ (~isStaticAsset(ev.url) /\ ~isAPIRequest(ev.url) /\ ~isPageRequest(ev.url))
                    => responded[1] = "networkFirstStrategy"
        ELSE responded = <<>>

\* C1 witness: a request matching both the static-asset and the API test was
\* classified, and went to cache-first.
C1_Witness ==
    /\ Handled(ev)
    /\ isStaticAsset(ev.url) /\ isAPIRequest(ev.url)
    /\ responded = <<"cacheFirstStrategy">>

\* C2 as stated: at most one of isStaticAsset, isAPIRequest, isPageRequest is
\* true of any request URL.
C2_MutuallyExclusive ==
    ev # NoEvent => MatchCount(ev.url) <= 1

\* C2 amended: the predicates overlap, and the else-if chain of the listener
\* is what keeps a request from being handled by more than one policy:
\* respondWith is called at most once per event, and exactly once for a GET
\* http(s) request matching two or three of the predicates.
C2_AtMostOnePolicyApplied ==
    /\ Len(responded) <= 1
    /\ (Handled(ev) /\ MatchCount(ev.url) >= 2) => Len(responded) = 1

\* C2 witness: a request matching all three predicates got one strategy.
C2_Witness ==
    /\ Handled(ev)
    /\ MatchCount(ev.url) = 3
    /\ Len(responded) = 1

-----------------------------------------------------------------------------
(* Claims about the strategies, the install and the activate handler,      *)
(* checked under Spec.                                                     *)

Settled == done.pc = "settled"

\* C3 as stated: every strategy call settles by being fulfilled with a
\* response object (cached, network, offline document or synthetic 503),
\* whatever the cache holds or does and however the fetch ends; it is never
\* fulfilled with no response and never rejected.
C3_AlwaysAResponse ==
    Settled => done.kind = "response"

\* The first cache in creation order that holds u is the static partition.
StaticIsFirstHolder(cs, u) ==
    \E i \in 1..Len(cs) :
        /\ cs[i].name = STATIC_CACHE_NAME
        /\ EntryVer(cs[i].entries, u) # NoVer
        /\ \A j \in 1..(i - 1) : EntryVer(cs[j].entries, u) = NoVer

\* C4 as stated: a cache-first call for a URL that has an entry in the
\* static partition (and whose lookup goes through) returns that entry and
\* issues no network fetch.
C4_StaticEntryReturned ==
    (Settled /\ done.strategy = "cacheFirstStrategy"
        /\ done.staticVer # NoVer /\ done.lookup # "failed")
    => /\ done.kind = "response"
       /\ done.resp = Resp(done.url, done.staticVer, 200)
       /\ ~done.fetched

\* C4 amended: a cache-first call for a URL that has an entry in the static
\* partition settles at its lookup, without a network fetch and without a
\* cache write: with the response caches.match finds, which is the first
\* match over all caches in creation order - the static partition's entry
\* exactly when no cache created before it holds the URL - or with the
\* synthetic 503 when the lookup itself fails.
C4_FirstMatchReturnedNoFetch ==
    [][(/\ req.pc = "start"
        /\ req.strategy = "cacheFirstStrategy"
        /\ req' # req
        /\ CacheMatch(caches, STATIC_CACHE_NAME, req.url) # NoVer)
       => /\ req' = NoReq
          /\ done'.pc = "settled" /\ done'.kind = "response"
          /\ ~done'.fetched
          /\ UNCHANGED <<caches, bg>>
          /\ \/ done'.lookup = "failed" /\ done'.resp = Synthetic503
             \/ /\ done'.lookup = "hit"
                /\ done'.resp = Resp(req.url, MatchAll(caches, req.url), 200)
                /\ StaticIsFirstHolder(caches, req.url)
                    => done'.resp =
                        Resp(req.url, CacheMatch(caches, STATIC_CACHE_NAME, req.url), 200)
      ]_vars

\* C4 witness: a cache-first call returned the static partition's entry of
\* its URL without fetching.
C4_Witness ==
    /\ Settled /\ done.strategy = "cacheFirstStrategy"
    /\ done.lookup = "hit" /\ done.staticVer # NoVer
    /\ done.resp = Resp(done.url, done.staticVer, 200)
    /\ ~done.fetched

\* C5 as stated: a cache-first call whose lookup misses fetches from the
\* network and returns the network response, storing a copy only if it is
\* ok; if the fetch fails it returns the synthetic 503.
C5_MissReturnsNetworkResponse ==
    (Settled /\ done.strategy = "cacheFirstStrategy" /\ done.lookup = "miss")
    => /\ done.fetched
       /\ done.kind = "response"
       /\ done.net \in {"ok", "notok"} => done.resp = done.netResp
       /\ done.putIssued => done.netResp.status = 200
       /\ done.net = "fail" => done.resp = Synthetic503

\* C6 as stated: a network-first call whose fetch fails returns the cache
\* entry of the request if there is one; with none it returns the offline
\* document for a page request and the synthetic 503 otherwise.
C6_NetworkFailureFallback ==
    (Settled /\ done.strategy = "networkFirstStrategy" /\ done.net = "fail")
    => /\ done.lookup = "hit"
            => done.kind = "response" /\ done.resp = Resp(done.url, done.foundVer, 200)
       /\ (done.lookup = "miss" /\ isPageRequest(done.url))
            => done.kind = "response" /\ done.resp.url = "offline"
       /\ (done.lookup = "miss" /\ ~isPageRequest(done.url))
            => done.kind = "response" /\ done.resp = Synthetic503

\* C7 as stated: when a network-first call returns the response of a
\* successful fetch, a copy of it is in the dynamic partition and the
\* partition holds at most 100 entries, in whatever order the cache write
\* and the cleanup ran.
C7_StoredAndPrunedAtReturn ==
    (Settled /\ done.strategy = "networkFirstStrategy" /\ done.putIssued)
    => /\ done.stored
       /\ done.size <= DYNAMIC_MAX_ENTRIES

SWR == "staleWhileRevalidateStrategy"

C9_InstallAbortsOnFailure ==
    install.outcome = "addAllFails"
    => /\ install.promise = "rejected"
       /\ swState \notin {"installed", "activated"}
       /\ ~install.skipWaiting

CurrentNames == {STATIC_CACHE_NAME, DYNAMIC_CACHE_NAME, CACHE_NAME}

C11_WriteFailureKeepsResponse ==
    (Settled /\ done.strategy \in {"cacheFirstStrategy", "networkFirstStrategy"}
        /\ done.net = "ok")
    => /\ done.kind = "response"
       /\ done.resp = done.netResp

ManifestUrls == {STATIC_ASSETS[i] : i \in 1..Len(STATIC_ASSETS)}

\* C12 as stated: after an installation that cached every manifest asset,
\* a request for a manifest URL that gets nothing from the network (and
\* whose cache lookups go through) is answered with a cached response for
\* that URL.
C12_PrecachedServedOffline ==
    (Settled /\ install.outcome = "ok" /\ done.url \in ManifestUrls
        /\ done.net \in {"none", "fail"} /\ done.lookup # "failed")
    => /\ done.kind = "response"
       /\ done.resp.url = done.url
       /\ done.resp.status = 200

-----------------------------------------------------------------------------
(* Members directory (src/assets/js/members.js).  Text the code searches   *)
(* or compares is a sequence of one-character strings; the empty sequence  *)
(* is the empty string, which JavaScript treats as false.                  *)

\* The one element of a singleton set.  { F(x) : x \in {e} } evaluates e
\* once, however often F uses x.
TheOne(S) == CHOOSE v \in S : TRUE

UpperCase ==
    <<"A", "B", "C", "D", "E", "F", "G", "H", "I", "J", "K", "L", "M",
      "N", "O", "P", "Q", "R", "S", "T", "U", "V", "W", "X", "Y", "Z">>

LowerCase ==
    <<"a", "b", "c", "d", "e", "f", "g", "h", "i", "j", "k", "l", "m",
      "n", "o", "p", "q", "r", "s", "t", "u", "v", "w", "x", "y", "z">>

\* The characters of the model's texts.
Chars == {UpperCase[k] : k \in 1..26} \cup {LowerCase[k] : k \in 1..26} \cup {" "}

IsUpper == [c \in Chars |-> \E k \in 1..26 : UpperCase[k] = c]

LowerOf ==
    [c \in Chars |->
        IF IsUpper[c] THEN LowerCase[CHOOSE k \in 1..26 : UpperCase[k] = c] ELSE c]

\* String.prototype.toLowerCase
toLowerCase(s) == [i \in 1..Len(s) |-> LowerOf[s[i]]]

RECURSIVE trimStart(_)
trimStart(s) == IF s # <<>> /\ Head(s) = " " THEN trimStart(Tail(s)) ELSE s

RECURSIVE trimEnd(_)
trimEnd(s) ==
    IF s # <<>> /\ s[Len(s)] = " " THEN trimEnd(SubSeq(s, 1, Len(s) - 1)) ELSE s

\* String.prototype.trim
trim(s) == trimEnd(trimStart(s))

\* Array.prototype.join(' ') on an array of strings
RECURSIVE joinSpace(_)
joinSpace(a) ==
    IF a = <<>> THEN <<>>
    ELSE IF Len(a) = 1 THEN a[1]
    ELSE a[1] \o <<" ">> \o joinSpace(Tail(a))

\* Collation rank of a character: letters in alphabetical order, whatever
\* their case; anything else before the letters.
CharRank ==
    [c \in Chars |->
        IF \E k \in 1..26 : LowerCase[k] = c \/ UpperCase[k] = c
        THEN CHOOSE k \in 1..26 : LowerCase[k] = c \/ UpperCase[k] = c
        ELSE 0]

\* Lower case before upper case.
CaseRank == [c \in Chars |-> IF IsUpper[c] THEN 1 ELSE 0]

\* Comparison of two strings from their i-th characters on, character by
\* character by rank: -1, 0, 1; a proper prefix sorts first.
RECURSIVE CompareFrom(_, _, _, _)
CompareFrom(rank, a, b, i) ==
    IF i > Len(a) /\ i > Len(b) THEN 0
    ELSE IF i > Len(a) THEN -1
    ELSE IF i > Len(b) THEN 1
    ELSE IF rank[a[i]] < rank[b[i]] THEN -1
    ELSE IF rank[a[i]] > rank[b[i]] THEN 1
    ELSE CompareFrom(rank, a, b, i + 1)

CompareBy(rank, a, b) == CompareFrom(rank, a, b, 1)

\* String.prototype.localeCompare with the default collation: alphabetical
\* order regardless of case first, and between strings that differ in case
\* only, lower case before upper case.
localeCompare(a, b) ==
    TheOne({IF primary # 0 THEN primary ELSE CompareBy(CaseRank, a, b) :
                primary \in {CompareBy(CharRank, a, b)}})

-----------------------------------------------------------------------------
(* The data of /assets/data/members.json: rosters of member records, in    *)
(* the order of the file.  A record has an id, a name, a role, the three   *)
(* location fields (district and upazila may be empty), a list of skills   *)
(* and a join date (a day number, 0 when the field is missing).            *)

\* Records of the largest roster.
MaxMembers == 14

\* this.itemsPerPage
itemsPerPage == 12

NameInitials == <<"R", "a", "T", "K", "s", "N", "M">>

NameTails == <<<<"a", "n", "a">>, <<"i", "m">>, <<"u">>>>

Roles ==
    <<<<"V", "o", "l", "u", "n", "t", "e", "e", "r">>, <<"L", "e", "a", "d">>>>

Dhaka == <<"D", "h", "a", "k", "a">>

Gazipur == <<"G", "a", "z", "i", "p", "u", "r">>

Khulna == <<"K", "h", "u", "l", "n", "a">>

\* The districts of each division and the upazilas of each district; a
\* district lies in one division, an upazila in one district.
DistrictsOf(division) ==
    IF division = Dhaka THEN <<Dhaka, Gazipur>> ELSE <<Khulna, Khulna>>

UpazilasOf(district) ==
    CASE district = Dhaka ->
            <<<<"S", "a", "v", "a", "r">>, <<"D", "h", "a", "m", "r", "a", "i">>>>
      [] district = Gazipur ->
            <<<<"S", "r", "e", "e", "p", "u", "r">>, <<"S", "r", "e", "e", "p", "u", "r">>>>
      [] OTHER ->
            <<<<"R", "u", "p", "s", "a">>, <<"R", "u", "p", "s", "a">>>>

SkillSets == <<<<>>, <<<<"j", "s">>>>, <<<<"j", "s">>, <<"U", "I">>>>>>

\* The i-th record of the file.  Every seventh record has no upazila and
\* every eleventh no district either; join dates repeat and some are
\* missing.
Member(i) ==
    LET division == IF i % 3 = 0 THEN Khulna ELSE Dhaka
        district == IF i % 11 = 0 THEN <<>> ELSE DistrictsOf(division)[(i % 2) + 1]
        upazila == IF i % 7 = 0 \/ district = <<>> THEN <<>>
                   ELSE UpazilasOf(district)[((i \div 2) % 2) + 1]
    IN  [id |-> i,
         name |-> <<NameInitials[((i * 5) % 7) + 1]>> \o NameTails[(i % 3) + 1],
         role |-> Roles[((i \div 3) % 2) + 1],
         division |-> division,
         district |-> district,
         upazila |-> upazila,
         skills |-> SkillSets[((i \div 2) % 3) + 1],
         joinedDate |-> (i * 3) % 5]

\* The rosters a page view may load: one of more than a page, and an empty
\* one.
Rosters == {[i \in 1..MaxMembers |-> Member(i)], <<>>}

\* What the user may type into the search box.
TypedSearches == {<<>>, <<" ", "D", "h", "a", " ">>, <<"S", " ", "U">>}

SortKeys == {"name", "recent", "role"}

-----------------------------------------------------------------------------
(* Filtering, sorting and the page window.                                 *)

\* matchesSearch(member, searchTerm): the term is a substring of one of the
\* lower-cased fields; the skills are joined by a space into one field.
matchesSearch(member, searchTerm) ==
    LET searchFields ==
            <<toLowerCase(member.name), toLowerCase(member.role),
              toLowerCase(member.division), toLowerCase(member.district),
              toLowerCase(member.upazila), toLowerCase(joinSpace(member.skills))>>
    IN  \E k \in 1..Len(searchFields) : Includes(searchFields[k], searchTerm)

\* A plausible slip: the role test left out.
passesFiltersWithoutRole(member, filters) ==
    IF filters.search # <<>> /\ ~matchesSearch(member, filters.search) THEN FALSE
    ELSE IF filters.division # <<>> /\ member.division # filters.division THEN FALSE
    ELSE IF filters.district # <<>> /\ member.district # filters.district THEN FALSE
    ELSE IF filters.upazila # <<>> /\ member.upazila # filters.upazila THEN FALSE
    ELSE TRUE

\* The callback of this.members.filter in applyFilters.
passesFilters(member, filters) ==
    IF filters.search # <<>> /\ ~matchesSearch(member, filters.search) THEN FALSE
    ELSE IF filters.division # <<>> /\ member.division # filters.division THEN FALSE
    ELSE IF filters.district # <<>> /\ member.district # filters.district THEN FALSE
    ELSE IF filters.upazila # <<>> /\ member.upazila # filters.upazila THEN FALSE
    ELSE IF filters.role # <<>> /\ member.role # filters.role THEN FALSE
    ELSE TRUE

\* The comparator of sortMembers: negative, zero or positive.
compareMembers(sortBy, a, b) ==
    CASE sortBy = "name" -> localeCompare(a.name, b.name)
      [] sortBy = "recent" -> b.joinedDate - a.joinedDate
      [] sortBy = "role" -> localeCompare(a.role, b.role)
      [] OTHER -> 0

\* x put into a list sorted by the comparator, behind every element that
\* does not come after it.
InsertSorted(sorted, x, sortBy) ==
    TheOne({SubSeq(sorted, 1, at - 1) \o <<x>> \o SubSeq(sorted, at, Len(sorted)) :
        at \in {Cardinality({j \in 1..Len(sorted) :
                                 compareMembers(sortBy, sorted[j], x) <= 0}) + 1}})

\* The first n elements of the list, sorted.
RECURSIVE sortPrefix(_, _, _)
sortPrefix(list, n, sortBy) ==
    IF n = 0 THEN <<>>
    ELSE TheOne({InsertSorted(sorted, list[n], sortBy) :
                    sorted \in {sortPrefix(list, n - 1, sortBy)}})

\* Array.prototype.sort with the comparator of sortMembers: a stable sort.
sortMembers(list, sortBy) == sortPrefix(list, Len(list), sortBy)

\* A plausible slip: the element at index end taken too.
sliceInclusive(list, start, end) ==
    IF start >= Len(list) THEN <<>> ELSE SubSeq(list, start + 1, Min(end + 1, Len(list)))

\* Array.prototype.slice(start, end), indices from 0.
slice(list, start, end) ==
    IF start >= Len(list) THEN <<>> ELSE SubSeq(list, start + 1, Min(end, Len(list)))

\* Math.ceil(count / perPage)
totalPagesOf(count, perPage) ==
    IF count % perPage = 0 THEN count \div perPage ELSE (count \div perPage) + 1

\* renderMembers: with no record the grid is hidden (it shows nothing) and
\* the no-results block is shown; otherwise the grid shows the window of
\* the current page.
renderMembers(m) ==
    IF Len(m.filteredMembers) = 0
    THEN [m EXCEPT !.noResults = TRUE, !.grid = <<>>]
    ELSE LET start == (m.currentPage - 1) * itemsPerPage
             end == start + itemsPerPage
         IN  [m EXCEPT !.noResults = FALSE,
                       !.grid = slice(m.filteredMembers, start, end)]

\* renderPagination: hidden (no button to click) for at most one page;
\* otherwise buttons for the
\* previous page, page 1, the pages within two of the current one, the last
\* page and the next page.
renderPagination(m) ==
    LET totalPages == totalPagesOf(Len(m.filteredMembers), itemsPerPage)
        startPage == Max(1, m.currentPage - 2)
        endPage == Min(totalPages, m.currentPage + 2)
    IN  IF totalPages <= 1
        THEN [m EXCEPT !.pagination = 0, !.pageButtons = {}]
        ELSE [m EXCEPT
                !.pagination = totalPages,
                !.pageButtons =
                    (IF m.currentPage > 1 THEN {m.currentPage - 1} ELSE {})
                    \cup (IF startPage > 1 THEN {1} ELSE {})
                    \cup (startPage..endPage)
                    \cup (IF endPage < totalPages THEN {totalPages} ELSE {})
                    \cup (IF m.currentPage < totalPages THEN {m.currentPage + 1} ELSE {})]

\* A plausible slip: the page left where it was.
applyFiltersKeepsPage(directory) ==
    TheOne({
      TheOne({
        TheOne({
          TheOne({renderPagination(rendered) :
            rendered \in {renderMembers([m EXCEPT !.filteredMembers = sorted,
                                                  !.lastOp = "applyFilters",
                                                  !.fromPage = m.currentPage])}}) :
          sorted \in {sortMembers(kept, m.sortBy)}}) :
        kept \in {SelectSeq(m.members, LAMBDA member : passesFilters(member, m.filters))}}) :
      m \in {directory}})

\* applyFilters: page 1, filter, sort, render.
applyFilters(directory) ==
    TheOne({
      TheOne({
        TheOne({
          TheOne({renderPagination(rendered) :
            rendered \in {renderMembers([m EXCEPT !.currentPage = 1,
                                                  !.filteredMembers = sorted,
                                                  !.lastOp = "applyFilters",
                                                  !.fromPage = m.currentPage])}}) :
          sorted \in {sortMembers(kept, m.sortBy)}}) :
        kept \in {SelectSeq(m.members, LAMBDA member : passesFilters(member, m.filters))}}) :
      m \in {directory}})

-----------------------------------------------------------------------------
(* The dependent selects and the event listeners of the directory.         *)

\* populateDivisions: the divisions of the members, when the location data
\* was loaded and has divisions; otherwise the select is left as it is.
populateDivisions(m, hasDivisions) ==
    IF ~hasDivisions THEN m
    ELSE [m EXCEPT !.divisionOptions =
            {m.members[i].division : i \in 1..Len(m.members)} \ {<<>>}]

\* populateDistricts: the districts of the members of the selected
\* division; none when no division is selected.
populateDistricts(m) ==
    IF m.filters.division = <<>>
    THEN [m EXCEPT !.districtOptions = {}]
    ELSE [m EXCEPT !.districtOptions =
            {m.members[i].district :
                i \in {j \in 1..Len(m.members) :
                          m.members[j].division = m.filters.division}} \ {<<>>}]

\* populateUpazilas: the upazilas of the members of the selected division
\* and district; none when no district is selected.
populateUpazilas(m) ==
    IF m.filters.district = <<>>
    THEN [m EXCEPT !.upazilaOptions = {}]
    ELSE [m EXCEPT !.upazilaOptions =
            {m.members[i].upazila :
                i \in {j \in 1..Len(m.members) :
                          /\ m.members[j].division = m.filters.division
                          /\ m.members[j].district = m.filters.district}} \ {<<>>}]

clearUpazilas(m) == [m EXCEPT !.upazilaOptions = {}]

FilterTypes == {"division", "district", "upazila", "role"}

\* The values a filter select offers: its placeholder (the empty value) and
\* the options it was populated with; the role select offers the roles of
\* the members (populateRoles).
SelectOptions(m, filterType) ==
    {<<>>} \cup
    CASE filterType = "division" -> m.divisionOptions
      [] filterType = "district" -> m.districtOptions
      [] filterType = "upazila" -> m.upazilaOptions
      [] OTHER -> {m.members[i].role : i \in 1..Len(m.members)} \ {<<>>}

\* A plausible slip: the dependent filters left as they were.
filterChangeKeepsDependents(m, filterType, value) ==
    LET set == [m EXCEPT !.filters[filterType] = value,
                          !.lastEvent = IF filterType \in {"division", "district"}
                                        THEN filterType ELSE "filter",
                          !.hadDependents =
                              \/ /\ filterType = "division"
                                 /\ (m.filters.district # <<>> \/ m.filters.upazila # <<>>)
                              \/ /\ filterType = "district"
                                 /\ m.filters.upazila # <<>>]
    IN  IF filterType = "division"
        THEN applyFilters(clearUpazilas(populateDistricts(set)))
        ELSE IF filterType = "district"
        THEN applyFilters(populateUpazilas(set))
        ELSE applyFilters(set)

\* The change listener of a filter select: the filter takes the value; a
\* division change empties the district and upazila filters, a district
\* change the upazila filter; then applyFilters.
filterChange(m, filterType, value) ==
    LET set == [m EXCEPT !.filters[filterType] = value,
                          !.lastEvent = IF filterType \in {"division", "district"}
                                        THEN filterType ELSE "filter",
                          !.hadDependents =
                              \/ /\ filterType = "division"
                                 /\ (m.filters.district # <<>> \/ m.filters.upazila # <<>>)
                              \/ /\ filterType = "district"
                                 /\ m.filters.upazila # <<>>]
    IN  IF filterType = "division"
        THEN applyFilters(clearUpazilas(populateDistricts(
                [set EXCEPT !.filters.district = <<>>, !.filters.upazila = <<>>])))
        ELSE IF filterType = "district"
        THEN applyFilters(populateUpazilas([set EXCEPT !.filters.upazila = <<>>]))
        ELSE applyFilters(set)

\* What the members directory leaves alone.
membersRest == <<ev, responded, swState, install, activation, caches, dynFill, netVer,
                 req, bg, done, nEvents, blog, lang, search, forms, siteVars>>

\* init() after loadData() has resolved: the members are loaded,
\* filteredMembers is a copy of them, the listeners are set up, the
\* division select is populated and the first page is rendered.
MembersDirectoryInit ==
    /\ md.phase = "loading"
    /\ \E roster \in Rosters, hasDivisions \in BOOLEAN :
          md' = renderMembers(populateDivisions(
                    [md EXCEPT !.phase = "ready", !.members = roster,
                               !.filteredMembers = roster, !.lastOp = "init",
                               !.lastEvent = "load"],
                    hasDivisions))
    /\ UNCHANGED membersRest

\* init() when the members file cannot be loaded: the error state is
\* shown and no listener is set up.
MembersDirectoryInitFails ==
    /\ md.phase = "loading"
    /\ md' = [md EXCEPT !.phase = "error", !.lastOp = "showError"]
    /\ UNCHANGED membersRest

\* An input event of the search box: the pending timeout is cleared and a
\* new one set.
searchInput ==
    /\ md.phase = "ready"
    /\ \E typed \in TypedSearches : md' = [md EXCEPT !.searchTimeout = typed]
    /\ UNCHANGED membersRest

\* The timeout of the search box fires, 300 ms after the last input event.
searchTimeoutFires ==
    /\ md.phase = "ready"
    /\ md.searchTimeout # "none"
    /\ md' = applyFilters(
                [md EXCEPT !.filters.search = trim(toLowerCase(md.searchTimeout)),
                           !.searchTimeout = "none", !.lastEvent = "filter",
                           !.hadDependents = FALSE])
    /\ UNCHANGED membersRest

filterSelectChange ==
    /\ md.phase = "ready"
    /\ \E filterType \in FilterTypes :
          \E value \in SelectOptions(md, filterType) :
              md' = filterChange(md, filterType, value)
    /\ UNCHANGED membersRest

sortSelectChange ==
    /\ md.phase = "ready"
    /\ \E key \in SortKeys : md' = applyFilters([md EXCEPT !.sortBy = key, !.lastEvent = "filter",
                                                       !.hadDependents = FALSE])
    /\ UNCHANGED membersRest

\* A click on a button of the pagination control: goToPage(page).
goToPage ==
    /\ md.phase = "ready"
    /\ md.pagination > 0
    /\ \E page \in md.pageButtons :
          md' = renderPagination(renderMembers(
                    [md EXCEPT !.currentPage = page, !.lastOp = "goToPage",
                               !.fromPage = md.currentPage,
                               !.lastEvent = "page", !.hadDependents = FALSE]))
    /\ UNCHANGED membersRest

InitMembers ==
    /\ ClassifyIdle
    /\ WorkerIdle
    /\ md = NewMembersDirectory
    /\ blog = NoBlogSystem
    /\ lang = LangAt("en")
    /\ search = NoSiteSearch
    /\ forms = NoForm
    /\ SiteIdle

NextMembers ==
    \/ MembersDirectoryInit
    \/ MembersDirectoryInitFails
    \/ searchInput
    \/ searchTimeoutFires
    \/ filterSelectChange
    \/ sortSelectChange
    \/ goToPage

SpecMembers == InitMembers /\ [][NextMembers]_vars

-----------------------------------------------------------------------------
(* Blog listing (BlogSystem, src/assets/js/analytics.js).                  *)

\* Posts of the largest posts file.
MaxPosts == 11

\* this.postsPerPage
postsPerPage == 9

News == <<"N", "e", "w", "s">>

Events == <<"E", "v", "e", "n", "t", "s">>

\* The i-th post of /assets/data/posts.json: a title, an excerpt, tags, a
\* category, a date (a day number) and a number of views.
Post(i) ==
    [id |-> i,
     title |-> IF i % 3 = 0 THEN <<"G", "a", "l", "a">> ELSE <<"C", "a", "m", "p">>,
     excerpt |-> IF i % 4 = 0 THEN <<"n", "e", "w">> ELSE <<"o", "l", "d">>,
     tags |-> IF i % 5 = 0 THEN <<<<"f", "u", "n">>>> ELSE <<>>,
     category |-> IF i % 2 = 0 THEN News ELSE Events,
     date |-> (i * 4) % 7,
     views |-> (i * 3) % 5]

\* The posts a page view may load: more than a page, or none.
PostFiles == {[i \in 1..MaxPosts |-> Post(i)], <<>>}

\* The values of the category select and the queries searchPosts is
\* called with.
CategoryValues == {<<>>, <<"n", "e", "w", "s">>, Events}

Queries == {<<>>, <<"g">>, <<"G", "A", "L">>, <<"f", "u">>}

\* Array.prototype.sort with (a, b) => new Date(b.date) - new Date(a.date),
\* on the first n posts of the list: newest first, stable.
RECURSIVE sortPostsPrefix(_, _)
sortPostsPrefix(list, n) ==
    IF n = 0 THEN <<>>
    ELSE TheOne({
            TheOne({SubSeq(sorted, 1, at - 1) \o <<list[n]>> \o SubSeq(sorted, at, Len(sorted)) :
                at \in {Cardinality({j \in 1..Len(sorted) :
                                        list[n].date - sorted[j].date <= 0}) + 1}}) :
            sorted \in {sortPostsPrefix(list, n - 1)}})

\* post.category.toLowerCase() === this.currentCategory.toLowerCase()
inCategory(post, category) == toLowerCase(post.category) = toLowerCase(category)

\* BlogSystem.renderPosts: with no post the grid shows the no-posts block;
\* otherwise the window of the current page.
renderPosts(b) ==
    IF Len(b.filteredPosts) = 0
    THEN [b EXCEPT !.grid = <<>>]
    ELSE LET start == (b.currentPage - 1) * postsPerPage
             end == start + postsPerPage
         IN  [b EXCEPT !.grid = slice(b.filteredPosts, start, end)]

\* BlogSystem.renderPagination: as in the members directory.
blogRenderPagination(b) ==
    LET totalPages == totalPagesOf(Len(b.filteredPosts), postsPerPage)
        startPage == Max(1, b.currentPage - 2)
        endPage == Min(totalPages, b.currentPage + 2)
    IN  IF totalPages <= 1
        THEN [b EXCEPT !.pagination = 0, !.pageButtons = {}]
        ELSE [b EXCEPT
                !.pagination = totalPages,
                !.pageButtons =
                    (IF b.currentPage > 1 THEN {b.currentPage - 1} ELSE {})
                    \cup (IF startPage > 1 THEN {1} ELSE {})
                    \cup (startPage..endPage)
                    \cup (IF endPage < totalPages THEN {totalPages} ELSE {})
                    \cup (IF b.currentPage < totalPages THEN {b.currentPage + 1} ELSE {})]

\* BlogSystem.filterPosts: page 1, the posts of the current category (all
\* without one), render.
filterPosts(b) ==
    TheOne({blogRenderPagination(rendered) :
        rendered \in {renderPosts(
            [b EXCEPT !.currentPage = 1,
                      !.filteredPosts =
                          IF b.currentCategory # <<>>
                          THEN SelectSeq(b.posts,
                                         LAMBDA post : inCategory(post, b.currentCategory))
                          ELSE b.posts,
                      !.lastOp = "filterPosts",
                      !.fromPage = b.currentPage])}})

\* The filter callback of searchPosts for a query of two characters or
\* more.
matchesQuery(post, searchTerm, category) ==
    \/ Includes(toLowerCase(post.title), searchTerm)
    \/ Includes(toLowerCase(post.excerpt), searchTerm)
    \/ \E k \in 1..Len(post.tags) : Includes(toLowerCase(post.tags[k]), searchTerm)
    \/ (IF category # <<>> THEN inCategory(post, category) ELSE TRUE)

\* BlogSystem.searchPosts(query)
searchPosts(b, query) ==
    TheOne({blogRenderPagination(rendered) :
        rendered \in {renderPosts(
            [b EXCEPT !.filteredPosts =
                          IF query = <<>> \/ Len(query) < 2
                          THEN IF b.currentCategory # <<>>
                               THEN SelectSeq(b.posts,
                                        LAMBDA post : inCategory(post, b.currentCategory))
                               ELSE b.posts
                          ELSE SelectSeq(b.posts,
                                   LAMBDA post : matchesQuery(post, toLowerCase(query),
                                                              b.currentCategory)),
                      !.currentPage = 1,
                      !.lastOp = "searchPosts",
                      !.fromPage = b.currentPage])}})

\* What the blog listing leaves alone.
blogRest == <<ev, responded, swState, install, activation, caches, dynFill, netVer,
              req, bg, done, nEvents, md, lang, search, forms, siteVars>>

\* init() after loadPosts() has resolved: filteredPosts is the posts by
\* date, newest first; the first page is rendered.
BlogSystemInit ==
    /\ blog.phase = "loading"
    /\ \E posts \in PostFiles :
          blog' = renderPosts(
                    [blog EXCEPT !.phase = "ready", !.posts = posts,
                                 !.filteredPosts = sortPostsPrefix(posts, Len(posts)),
                                 !.lastOp = "init"])
    /\ UNCHANGED blogRest

\* init() when the posts cannot be loaded: showError, no listener.
BlogSystemInitFails ==
    /\ blog.phase = "loading"
    /\ blog' = [blog EXCEPT !.phase = "error", !.lastOp = "showError"]
    /\ UNCHANGED blogRest

\* The change listener of the category select.
categoryChange ==
    /\ blog.phase = "ready"
    /\ \E value \in CategoryValues :
          blog' = filterPosts([blog EXCEPT !.currentCategory = value])
    /\ UNCHANGED blogRest

\* A call of blogSystem.searchPosts(query).
searchPostsCall ==
    /\ blog.phase = "ready"
    /\ \E query \in Queries : blog' = searchPosts(blog, query)
    /\ UNCHANGED blogRest

\* A click on a button of the blog's pagination control: goToPage(page).
blogGoToPage ==
    /\ blog.phase = "ready"
    /\ blog.pagination > 0
    /\ \E page \in blog.pageButtons :
          blog' = blogRenderPagination(renderPosts(
                    [blog EXCEPT !.currentPage = page, !.lastOp = "goToPage",
                                 !.fromPage = blog.currentPage]))
    /\ UNCHANGED blogRest

InitBlog ==
    /\ ClassifyIdle
    /\ WorkerIdle
    /\ md = NoMembersDirectory
    /\ blog = NewBlogSystem
    /\ lang = LangAt("en")
    /\ search = NoSiteSearch
    /\ forms = NoForm
    /\ SiteIdle

NextBlog ==
    \/ BlogSystemInit
    \/ BlogSystemInitFails
    \/ categoryChange
    \/ searchPostsCall
    \/ blogGoToPage

\* A page view of the members page or of the blog page.
InitListings == InitMembers \/ InitBlog

NextListings == NextMembers \/ NextBlog

SpecListings == InitListings /\ [][NextListings]_vars

-----------------------------------------------------------------------------
(* Claims about the members directory.                                     *)

\* A member satisfies every active (non-empty) filter of the directory.
SatisfiesActive(member, filters) ==
    /\ filters.search # <<>> => matchesSearch(member, filters.search)
    /\ \A f \in FilterTypes : filters[f] # <<>> => member[f] = filters[f]

\* C13: after applyFilters, filteredMembers holds exactly the loaded
\* members that satisfy every active filter (search, division, district,
\* upazila, role), each once.
C13_ConjunctiveFilter ==
    (md.phase = "ready" /\ md.lastOp = "applyFilters")
    => /\ \A i \in 1..Len(md.members) :
            SatisfiesActive(md.members[i], md.filters)
                <=> \E j \in 1..Len(md.filteredMembers) :
                        md.filteredMembers[j] = md.members[i]
       /\ \A j \in 1..Len(md.filteredMembers) :
            \E i \in 1..Len(md.members) : md.members[i] = md.filteredMembers[j]
       /\ Len(md.filteredMembers) =
            Cardinality({i \in 1..Len(md.members) :
                            SatisfiesActive(md.members[i], md.filters)})

\* C13 witness: a search term, a division and a role are active together,
\* and some members, not all, are kept.
C13_Witness ==
    /\ md.phase = "ready" /\ md.lastOp = "applyFilters"
    /\ md.filters.search # <<>> /\ md.filters.division # <<>> /\ md.filters.role # <<>>
    /\ Len(md.filteredMembers) > 0
    /\ Len(md.filteredMembers) < Len(md.members)

\* A district is valid under a division, and an upazila under a division
\* and district, when some loaded member has them together.
ValidDistrict(m, division, district) ==
    \E i \in 1..Len(m.members) :
        m.members[i].division = division /\ m.members[i].district = district

ValidUpazila(m, division, district, upazila) ==
    \E i \in 1..Len(m.members) :
        /\ m.members[i].division = division
        /\ m.members[i].district = district
        /\ m.members[i].upazila = upazila

\* C14: after a division change no district or upazila filter that is
\* invalid under the new division is active, and after a district change
\* no upazila filter that is invalid under the new district.
C14_CascadingReset ==
    /\ (md.phase = "ready" /\ md.lastEvent = "division")
        => /\ md.filters.district # <<>>
                => ValidDistrict(md, md.filters.division, md.filters.district)
           /\ md.filters.upazila # <<>>
                => ValidUpazila(md, md.filters.division, md.filters.district,
                                md.filters.upazila)
    /\ (md.phase = "ready" /\ md.lastEvent = "district" /\ md.filters.upazila # <<>>)
        => ValidUpazila(md, md.filters.division, md.filters.district, md.filters.upazila)

\* C14 witness: a division was selected while a district or upazila filter
\* was set.
C14_Witness ==
    /\ md.phase = "ready" /\ md.lastEvent = "division" /\ md.hadDependents
    /\ md.filters.division # <<>>

\* The windows of pages 1..n of a list, one after the other.
RECURSIVE ConcatWindows(_, _, _)
ConcatWindows(list, perPage, n) ==
    IF n = 0 THEN <<>>
    ELSE ConcatWindows(list, perPage, n - 1)
            \o slice(list, (n - 1) * perPage, (n - 1) * perPage + perPage)

\* The page count is the ceiling of count / perPage, and the windows of
\* pages 1..count put together are the list.
PagesPartition(list, perPage) ==
    LET pages == totalPagesOf(Len(list), perPage)
    IN  /\ pages * perPage >= Len(list)
        /\ pages >= 0
        /\ pages > 0 => (pages - 1) * perPage < Len(list)
        /\ ConcatWindows(list, perPage, pages) = list

C16_RecomputeResetsPage ==
    /\ (md.phase = "ready" /\ md.lastOp = "applyFilters") => md.currentPage = 1
    /\ (blog.phase = "ready" /\ blog.lastOp \in {"filterPosts", "searchPosts"})
            => blog.currentPage = 1

\* C16 witness: the filters of the members directory were recomputed while
\* page 2 was current.
C16_Witness ==
    /\ md.phase = "ready" /\ md.lastOp = "applyFilters"
    /\ md.fromPage = 2 /\ md.currentPage = 1

\* A list is in the order of a sort key.
InOrder(list, sortBy) ==
    \A i \in 1..Len(list) : \A j \in i..Len(list) :
        compareMembers(sortBy, list[i], list[j]) <= 0

\* C17 as stated: every window the members directory shows, the first
\* render after load included, is the slice of the current page of the
\* filtered list, and that list is in the order of the selected sort key.
C17_WindowsInSortOrder ==
    (md.phase = "ready" /\ ~md.noResults)
    => /\ md.grid = slice(md.filteredMembers, (md.currentPage - 1) * itemsPerPage,
                          md.currentPage * itemsPerPage)
       /\ InOrder(md.filteredMembers, md.sortBy)

(***************************************************************************)
(* Site search (analytics.js, class SiteSearch) and the two language       *)
(* managers that can switch the page's language: I18nManager (i18n.js)     *)
(* and I18n (theme.js).                                                    *)
(***************************************************************************)

\* The longest burst of input events followed.
MaxBurst == 3

\* The size the result cache is trimmed to.
cacheLimit == 50

\* /assets/data/search-index.json: two pages, each in both languages.
SearchIndex ==
    {[id |-> 1, title |-> <<"E", "d", "u">>, language |-> "en"],
     [id |-> 2, title |-> <<"H", "e", "a">>, language |-> "en"],
     [id |-> 3, title |-> <<"E", "d", "u">>, language |-> "bn"],
     [id |-> 4, title |-> <<"H", "e", "a">>, language |-> "bn"]}

\* What is typed into the search input.
TypedQueries == {<<"e">>, <<"E", "d">>}

\* initializeFuse(): the Fuse structure is built over the entries of the
\* index whose language is currentLanguage.
initializeFuse(s) ==
    [s EXCEPT !.fuse = [built |-> TRUE,
                        docs |-> {item \in s.searchIndex : item.language = s.currentLanguage}]]

\* fuse.search(query): the entries of the structure's own collection that
\* match; the match is taken as the query being part of the title,
\* whatever the case.
fuseSearch(fuse, query) ==
    {item \in fuse.docs : Includes(toLowerCase(item.title), toLowerCase(query))}

\* updateLanguage(): with a structure, rebuild it and empty the results.
updateLanguage(s) ==
    IF s.fuse.built
    THEN [initializeFuse(s) EXCEPT !.shown = [kind |-> "empty", items |-> {}]]
    ELSE s

\* The 'languageChanged' listener of SiteSearch.
onLanguageChanged(s, language) ==
    updateLanguage([s EXCEPT !.currentLanguage = language])

\* The cache key of performSearch.
cacheKeyOf(s, query) == <<s.currentLanguage, toLowerCase(query)>>

\* cache.has / cache.get on the Map, kept as the sequence of its entries in
\* insertion order.
cacheHas(cache, key) == \E k \in 1..Len(cache) : cache[k].key = key

cacheGet(cache, key) == cache[CHOOSE k \in 1..Len(cache) : cache[k].key = key].results

\* cache.set followed by the size limit: above cacheLimit entries the
\* oldest key is deleted.
cacheSet(cache, key, results) ==
    LET set == IF cacheHas(cache, key)
               THEN [k \in 1..Len(cache) |->
                        IF cache[k].key = key THEN [key |-> key, results |-> results]
                        ELSE cache[k]]
               ELSE Append(cache, [key |-> key, results |-> results])
    IN  IF Len(set) > cacheLimit THEN Tail(set) ELSE set

\* renderResults(results, query).
renderResults(s, results) ==
    [s EXCEPT !.shown = [kind |-> "results", items |-> results], !.sinceSwitch = TRUE]

\* The part of performSearch after the wait for the index, with the key
\* computed before it: search, cache, render; without a structure
\* this.fuse.search throws and the error text is shown.
finishSearch(s, query, cacheKey) ==
    IF s.fuse.built
    THEN renderResults([s EXCEPT !.cache = cacheSet(s.cache, cacheKey,
                                                    fuseSearch(s.fuse, query))],
                       fuseSearch(s.fuse, query))
    ELSE [s EXCEPT !.shown = [kind |-> "error", items |-> {}]]

\* performSearch(query) up to its first wait.  Without a structure it
\* calls loadSearchIndex(), which returns at once when a load is running.
performSearch(s, query) ==
    IF Len(trim(query)) < 2
    THEN [s EXCEPT !.shown = [kind |-> "empty", items |-> {}]]
    ELSE IF cacheHas(s.cache, cacheKeyOf(s, query))
    THEN renderResults(s, cacheGet(s.cache, cacheKeyOf(s, query)))
    ELSE IF s.fuse.built \/ s.isLoading
    THEN finishSearch(s, query, cacheKeyOf(s, query))
    ELSE [s EXCEPT !.shown = [kind |-> "loading", items |-> {}],
                   !.isLoading = TRUE,
                   !.pending = [active |-> TRUE, query |-> query,
                                cacheKey |-> cacheKeyOf(s, query)]]

\* Everything but the language and the site search.
searchRest == <<ev, responded, swState, install, activation, caches, dynFill, netVer,
                req, bg, done, nEvents, md, blog, forms, siteVars>>

\* init(): the index arrives; loadSearchIndex builds the structure, then
\* the listeners are registered and updateLanguage() runs.
SiteSearchInit ==
    /\ search.phase = "loading"
    /\ search' = updateLanguage(initializeFuse(
                    [search EXCEPT !.phase = "ready", !.isLoading = FALSE,
                                   !.searchIndex = SearchIndex]))
    /\ UNCHANGED <<lang, searchRest>>

\* init() when the fetch of the index fails: the error is logged inside
\* loadSearchIndex and the listeners are registered all the same.
SiteSearchInitFails ==
    /\ search.phase = "loading"
    /\ search' = [search EXCEPT !.phase = "ready", !.isLoading = FALSE]
    /\ UNCHANGED <<lang, searchRest>>

\* I18n.changeLanguage(lang) of theme.js: applyLanguage() sets the
\* document's language and dispatches 'languageChanged' with
\* detail.language, which SiteSearch hears once its listeners exist.
themeChangeLanguage ==
    \E l \in Languages :
        /\ l # lang.theme
        /\ lang' = [lang EXCEPT !.theme = l, !.document = l]
        /\ search' = IF search.phase = "ready"
                     THEN [onLanguageChanged(search, l) EXCEPT !.sinceSwitch = FALSE]
                     ELSE search
        /\ UNCHANGED searchRest

\* I18nManager.switchLanguage(newLanguage) of i18n.js: sets the document's
\* language and dispatches 'languagechange' with detail.newLanguage; no
\* listener of SiteSearch has that name.
i18nSwitchLanguage ==
    \E newLanguage \in Languages :
        /\ newLanguage # lang.i18n
        /\ lang' = [lang EXCEPT !.i18n = newLanguage, !.document = newLanguage]
        /\ search' = [search EXCEPT !.sinceSwitch = FALSE]
        /\ UNCHANGED searchRest

\* The 'input' listener: this.debounce(..., 300) makes a new debounced
\* function for the event and calls it once, which sets one more timeout;
\* the timeout of an earlier event belongs to another closure and stays.
\* An event belongs to the running burst when the last event's timeout is
\* still pending; bursts of up to MaxBurst events are followed.
searchInputEvent ==
    \E value \in TypedQueries :
        /\ search.phase = "ready"
        /\ search.timers = 0 \/ search.burst < MaxBurst
        /\ search' = [search EXCEPT !.input = value,
                                    !.timers = @ + 1,
                                    !.burst = IF search.timers = 0 THEN 1 ELSE @ + 1,
                                    !.runs = IF search.timers = 0 THEN 0 ELSE @]
        /\ UNCHANGED <<lang, searchRest>>

\* A timeout of the input listener fires: performSearch(searchInput.value)
\* with the value the input has now.
searchDebounceFires ==
    /\ search.timers > 0
    /\ search' = [performSearch(search, search.input) EXCEPT !.timers = @ - 1,
                                                             !.runs = @ + 1]
    /\ UNCHANGED <<lang, searchRest>>

\* The loadSearchIndex() a search waits for ends, with the index or
\* without it, and the search goes on with the key it computed before.
searchIndexLoads ==
    \E ok \in BOOLEAN :
        /\ search.pending.active
        /\ search' = finishSearch(
                        [(IF ok THEN initializeFuse([search EXCEPT !.searchIndex = SearchIndex])
                                ELSE search)
                            EXCEPT !.isLoading = FALSE,
                                   !.pending = NewSiteSearch.pending],
                        search.pending.query, search.pending.cacheKey)
        /\ UNCHANGED <<lang, searchRest>>

InitSearch ==
    /\ ClassifyIdle
    /\ WorkerIdle
    /\ md = NoMembersDirectory
    /\ blog = NoBlogSystem
    /\ lang = LangAt("en")
    /\ search = NewSiteSearch
    /\ forms = NoForm
    /\ SiteIdle

NextSearch ==
    \/ SiteSearchInit
    \/ SiteSearchInitFails
    \/ themeChangeLanguage
    \/ i18nSwitchLanguage
    \/ searchInputEvent
    \/ searchDebounceFires
    \/ searchIndexLoads

SpecSearch == InitSearch /\ [][NextSearch]_vars

(***************************************************************************)
(* Claims about the site search.                                           *)
(***************************************************************************)

\* C18: after the active language is switched, a subsequent site search
\* returns only search-index entries whose language is the new active
\* language: results rendered since the last switch hold no entry of
\* another language than the document's.
C18_SearchFollowsLanguage ==
    (search.shown.kind = "results" /\ search.sinceSwitch)
        => \A item \in search.shown.items : item.language = lang.document

(***************************************************************************)
(* Form drafts (forms.js, class FormsHandler): saveFormData,               *)
(* restoreFormData and the auto-save listener.                             *)
(***************************************************************************)

\* The forms a page can hold, as rendered: each field with its name, its
\* type, its value attribute and whether it is checked by default.
ContactForm ==
    [name |-> "contact",
     fields |-> <<[name |-> "email", type |-> "email", value |-> "", checked |-> FALSE],
                  [name |-> "bot-field", type |-> "text", value |-> "", checked |-> FALSE],
                  [name |-> "message", type |-> "textarea", value |-> "", checked |-> FALSE]>>]

VolunteerForm ==
    [name |-> "volunteer",
     fields |-> <<[name |-> "email", type |-> "email", value |-> "", checked |-> FALSE],
                  [name |-> "role", type |-> "radio", value |-> "student", checked |-> TRUE],
                  [name |-> "role", type |-> "radio", value |-> "pro", checked |-> FALSE],
                  [name |-> "cv", type |-> "file", value |-> "", checked |-> FALSE],
                  [name |-> "message", type |-> "textarea", value |-> "", checked |-> FALSE]>>]

NewsletterForm ==
    [name |-> "newsletter",
     fields |-> <<[name |-> "email", type |-> "email", value |-> "", checked |-> FALSE]>>]

Layouts == {ContactForm, VolunteerForm, NewsletterForm}

\* What is typed into a text field, and the file that can be chosen.
TypedValues == {"", "a"}

ChosenFiles == {"", "cv.pdf"}

\* The fields of a freshly rendered form.
freshState(layout) ==
    [i \in 1..Len(layout.fields) |->
        [value |-> layout.fields[i].value, checked |-> layout.fields[i].checked]]

\* new FormData(form).entries(): the fields in tree order; a checkbox or
\* radio button only when checked, with its value; a file input with its
\* File (an empty File when nothing is chosen); any other field with its
\* value.
RECURSIVE formDataPrefix(_, _, _)
formDataPrefix(layout, state, n) ==
    IF n = 0 THEN <<>>
    ELSE LET field == layout.fields[n]
             before == formDataPrefix(layout, state, n - 1)
         IN  IF field.type \in {"checkbox", "radio"}
             THEN IF state[n].checked
                  THEN Append(before, [key |-> field.name,
                                       value |-> [t |-> "string", v |-> state[n].value]])
                  ELSE before
             ELSE IF field.type = "file"
             THEN Append(before, [key |-> field.name,
                                  value |-> [t |-> "File", v |-> state[n].value]])
             ELSE Append(before, [key |-> field.name,
                                  value |-> [t |-> "string", v |-> state[n].value]])

FormData(layout, state) == formDataPrefix(layout, state, Len(layout.fields))

\* data[key] = value on a plain object, kept as its properties in
\* insertion order: a key already there keeps its place and takes the new
\* value.
setProperty(data, key, value) ==
    IF \E k \in 1..Len(data) : data[k].key = key
    THEN [k \in 1..Len(data) |->
            IF data[k].key = key THEN [key |-> key, value |-> value] ELSE data[k]]
    ELSE Append(data, [key |-> key, value |-> value])

\* The loop of saveFormData: every entry but the honeypot's is written
\* into data.
RECURSIVE draftPrefix(_, _)
draftPrefix(entries, n) ==
    IF n = 0 THEN <<>>
    ELSE IF entries[n].key # "bot-field"
    THEN setProperty(draftPrefix(entries, n - 1), entries[n].key, entries[n].value)
    ELSE draftPrefix(entries, n - 1)

\* JSON.stringify(data): a string is written as a string; a File has no
\* enumerable property of its own and is written as {}.  The stored item
\* is kept as the document JSON.parse reads back.
JSONstringify(data) ==
    [k \in 1..Len(data) |->
        [key |-> data[k].key,
         value |-> IF data[k].value.t = "File" THEN [t |-> "object", v |-> ""]
                   ELSE data[k].value]]

\* What saveFormData(form) puts into sessionStorage.
saveFormData(layout, state) ==
    [present |-> TRUE,
     data |-> JSONstringify(draftPrefix(FormData(layout, state),
                                        Len(FormData(layout, state))))]

\* The string a value becomes when assigned to field.value.
stringOf(value) == IF value.t = "object" THEN "[object Object]" ELSE value.v

\* form.querySelector('[name="key"]'): the first field of that name, 0
\* when there is none.
querySelectorByName(layout, key) ==
    IF \E i \in 1..Len(layout.fields) : layout.fields[i].name = key
    THEN CHOOSE i \in 1..Len(layout.fields) :
            /\ layout.fields[i].name = key
            /\ \A j \in 1..(i - 1) : layout.fields[j].name # key
    ELSE 0

\* One turn of the forEach of restoreFormData.  field.value = value sets
\* the value of the field found; on a file input any string but the empty
\* one throws, which ends the forEach inside the silent catch.
restoreEntry(layout, r, entry) ==
    LET i == querySelectorByName(layout, entry.key)
    IN  IF r.thrown \/ i = 0 THEN r
        ELSE IF layout.fields[i].name = "bot-field" THEN r
        ELSE IF layout.fields[i].type = "file"
        THEN IF stringOf(entry.value) = ""
             THEN [r EXCEPT !.state[i].value = ""]
             ELSE [r EXCEPT !.thrown = TRUE]
        ELSE [r EXCEPT !.state[i].value = stringOf(entry.value)]

RECURSIVE restorePrefix(_, _, _, _)
restorePrefix(layout, state, data, n) ==
    IF n = 0 THEN [state |-> state, thrown |-> FALSE]
    ELSE TheOne({restoreEntry(layout, r, data[n]) :
                    r \in {restorePrefix(layout, state, data, n - 1)}})

\* restoreFormData(form): with a stored item, its entries are written
\* into the form's fields.
restoreFormData(layout, state, storage) ==
    IF storage.present
    THEN restorePrefix(layout, state, storage.data, Len(storage.data)).state
    ELSE state

\* The field i after the user's input: a typed value, a chosen file, or a
\* click that checks a radio button and unchecks the others of its name.
inputInto(layout, state, i, v) ==
    IF layout.fields[i].type = "radio"
    THEN [j \in 1..Len(state) |->
            IF j = i THEN [state[j] EXCEPT !.checked = TRUE]
            ELSE IF layout.fields[j].type = "radio"
                    /\ layout.fields[j].name = layout.fields[i].name
            THEN [state[j] EXCEPT !.checked = FALSE]
            ELSE state[j]]
    ELSE [state EXCEPT ![i].value = v]

\* The values the user can give the field i.
InputsOf(layout, i) ==
    IF layout.fields[i].type = "radio" THEN {""}
    ELSE IF layout.fields[i].type = "file" THEN ChosenFiles
    ELSE TypedValues

\* Everything but the form.
formsRest == <<ev, responded, swState, install, activation, caches, dynFill, netVer,
               req, bg, done, nEvents, md, blog, lang, search, siteVars>>

\* DOMContentLoaded: initializeAll() registers the auto-save listener and
\* restores the draft of every form.
initializeAll ==
    /\ forms.phase = "rendered"
    /\ forms' = [forms EXCEPT !.phase = "ready",
                              !.state = restoreFormData(forms.layout, forms.state,
                                                        forms.storage),
                              !.lastOp = "restore"]
    /\ UNCHANGED formsRest

\* An input event on a field.  The auto-save listener acts on the forms
\* named contact and volunteer: this.debounce(..., 1000) makes a new
\* debounced function for the event and calls it once, which sets one
\* more timeout.
formInput ==
    \E i \in 1..Len(forms.layout.fields) : \E v \in InputsOf(forms.layout, i) :
        /\ forms.phase = "ready"
        /\ forms.timers < MaxBurst
        /\ forms' = [forms EXCEPT !.state = inputInto(forms.layout, forms.state, i, v),
                                  !.timers = IF forms.layout.name \in {"contact", "volunteer"}
                                             THEN @ + 1 ELSE @,
                                  !.lastOp = "input"]
        /\ UNCHANGED formsRest

\* An auto-save timeout fires: saveFormData(form).
autoSaveFires ==
    /\ forms.timers > 0
    /\ forms' = [forms EXCEPT !.storage = saveFormData(forms.layout, forms.state),
                              !.original = forms.state,
                              !.timers = @ - 1,
                              !.lastOp = "save"]
    /\ UNCHANGED formsRest

\* The page is loaded again in the same tab: the form is rendered afresh,
\* the timeouts are gone and sessionStorage is kept.
pageReload ==
    /\ forms.phase = "ready"
    /\ forms' = [forms EXCEPT !.phase = "rendered",
                              !.state = freshState(forms.layout),
                              !.timers = 0,
                              !.lastOp = "render"]
    /\ UNCHANGED formsRest

InitForms ==
    /\ ClassifyIdle
    /\ WorkerIdle
    /\ md = NoMembersDirectory
    /\ blog = NoBlogSystem
    /\ lang = LangAt("en")
    /\ search = NoSiteSearch
    /\ SiteIdle
    /\ \E layout \in Layouts :
        forms = [NoForm EXCEPT !.phase = "rendered", !.layout = layout,
                               !.state = freshState(layout), !.lastOp = "render"]

NextForms ==
    \/ initializeAll
    \/ formInput
    \/ autoSaveFires
    \/ pageReload

SpecForms == InitForms /\ [][NextForms]_vars

(***************************************************************************)
(* Claims about the form drafts.                                           *)
(***************************************************************************)

\* C19: saveFormData followed by restoreFormData into a freshly rendered
\* identical form reproduces every field as it was at the save, except
\* the honeypot field 'bot-field', which is not stored and stays as
\* rendered.
C19_DraftRoundTrip ==
    (forms.lastOp = "restore" /\ forms.storage.present)
        => /\ \A k \in 1..Len(forms.storage.data) : forms.storage.data[k].key # "bot-field"
           /\ \A i \in 1..Len(forms.layout.fields) :
                IF forms.layout.fields[i].name = "bot-field"
                THEN forms.state[i] = freshState(forms.layout)[i]
                ELSE forms.state[i] = forms.original[i]

(***************************************************************************)
(* Claims about the debounced handlers.                                    *)
(***************************************************************************)

\* C20: a burst of input events, each within the quiet period of the one
\* before, cancels the pending invocation each time, so the debounced
\* work (here the site search) has not run while a timeout of the burst
\* is pending and has run exactly once when the burst is over.
C20_BurstRunsWorkOnce ==
    search.burst >= 1
        => IF search.timers = 0 THEN search.runs = 1 ELSE search.runs = 0

(***************************************************************************)
(* Translation lookup: I18n.translate (theme.js) and                       *)
(* I18nManager.getTranslation / getNestedValue (i18n.js).                  *)
(***************************************************************************)

\* The property names of the translation documents.
Names == {"a", "b"}

\* A JSON value of a translation document: a text, or a group of named
\* values.  NotLoaded is the undefined a manager holds for a document it
\* never stored.
TextValue(text) == [t |-> "string", v |-> text, props |-> <<>>]

GroupValue(props) == [t |-> "object", v |-> "", props |-> props]

NotLoaded == [t |-> "undefined", v |-> "", props |-> <<>>]

\* The groups of texts: each of the names absent, empty or the text.
InnerGroups(text) ==
    {GroupValue(props) : props \in UNION {[S -> {TextValue(""), TextValue(text)}] :
                                            S \in SUBSET {"b"}}}

\* /assets/i18n/<lang>.json: a group whose values are texts or groups of
\* texts; the texts of a language are marked with the language.
Documents(l) ==
    {GroupValue(props) :
        props \in UNION {[S -> {TextValue(""), TextValue(l)} \cup InnerGroups(l)] :
                            S \in SUBSET Names}}

\* key.split('.') of the keys looked up: a, b, a.b and b.a.
KeyPaths == {<<"a">>, <<"b">>, <<"a", "b">>, <<"b", "a">>}

\* k in translation, on a value that is an object.
HasProperty(value, k) == value.t = "object" /\ k \in DOMAIN value.props

\* The walk of translate over keys from value: the value reached, or
\* Missing at the first key that is not a property of an object.
Missing == [t |-> "missing", v |-> "", props |-> <<>>]

RECURSIVE walkFrom(_, _, _)
walkFrom(value, keys, i) ==
    IF i > Len(keys) THEN value
    ELSE IF HasProperty(value, keys[i])
    THEN walkFrom(value.props[keys[i]], keys, i + 1)
    ELSE Missing

\* What a lookup returns: a text, the literal key, or a group object.
ReturnedText(text) == [t |-> "text", v |-> text]

ReturnedKey == [t |-> "key", v |-> ""]

ReturnedObject == [t |-> "object", v |-> ""]

\* I18n.translate(key): the keys are walked in the current language; at
\* the first miss the whole path is walked in the fallback language, and a
\* miss there returns the key; what is reached is returned when it is a
\* string, the key otherwise.
translate(docs, currentLang, keys) ==
    LET reached ==
            IF walkFrom(docs[currentLang], keys, 1) # Missing
            THEN walkFrom(docs[currentLang], keys, 1)
            ELSE walkFrom(docs["en"], keys, 1)
    IN  IF reached.t = "string" THEN ReturnedText(reached.v) ELSE ReturnedKey

\* getNestedValue(obj, path): null without an object; the reduce takes
\* current[key] while current is truthy and the property is defined, null
\* otherwise.  A text has none of the names as a property.
Null == [t |-> "null", v |-> "", props |-> <<>>]

Truthy(value) ==
    \/ value.t = "object"
    \/ value.t = "string" /\ value.v # ""

RECURSIVE reduceFrom(_, _, _)
reduceFrom(current, keys, i) ==
    IF i > Len(keys) THEN current
    ELSE IF Truthy(current) /\ HasProperty(current, keys[i])
    THEN reduceFrom(current.props[keys[i]], keys, i + 1)
    ELSE reduceFrom(Null, keys, i + 1)

getNestedValue(obj, keys) ==
    IF ~Truthy(obj) THEN Null ELSE reduceFrom(obj, keys, 1)

\* getTranslation(key): the nested value of the current language; when it
\* is falsy and the current language is not the fallback, the nested value
\* of the fallback language; the value when truthy, the key otherwise.
getTranslation(docs, currentLanguage, keys) ==
    LET translation ==
            IF ~Truthy(getNestedValue(docs[currentLanguage], keys))
               /\ currentLanguage # "en"
            THEN getNestedValue(docs["en"], keys)
            ELSE getNestedValue(docs[currentLanguage], keys)
    IN  IF ~Truthy(translation) THEN ReturnedKey
        ELSE IF translation.t = "string" THEN ReturnedText(translation.v)
        ELSE ReturnedObject

\* Everything but the translations.
trRest == <<ev, responded, swState, install, activation, caches, dynFill, netVer,
            req, bg, done, nEvents, md, blog, lang, search, forms, an, tm, store, boot>>

\* loadTranslations() of both managers: each document arrives or not.
\* I18n keeps {} for a document that failed; I18nManager keeps {} for the
\* fallback language and nothing for another language that failed.  The
\* documents are kept as I18nManager holds them, and I18n reads {} where
\* nothing is held.
loadTranslations ==
    \E en \in Documents("en") \cup {GroupValue(<<>>)} :
    \E bn \in Documents("bn") \cup {NotLoaded} :
        /\ tr.phase = "loading"
        /\ tr' = [tr EXCEPT !.phase = "ready", !.docs = [l \in Languages |->
                                                            IF l = "en" THEN en ELSE bn]]
        /\ UNCHANGED trRest

\* The documents as I18n of theme.js holds them.
themeDocs(docs) ==
    [l \in Languages |-> IF docs[l] = NotLoaded THEN GroupValue(<<>>) ELSE docs[l]]

\* window.i18n.t(key) answered by I18n of theme.js.
themeTranslate ==
    \E keys \in KeyPaths :
        /\ tr.phase = "ready"
        /\ tr' = [tr EXCEPT !.impl = "theme", !.key = keys,
                            !.result = translate(themeDocs(tr.docs), lang.theme, keys)]
        /\ UNCHANGED trRest

\* window.i18n.t(key) answered by I18nManager of i18n.js.
i18nGetTranslation ==
    \E keys \in KeyPaths :
        /\ tr.phase = "ready"
        /\ tr' = [tr EXCEPT !.impl = "i18n", !.key = keys,
                            !.result = getTranslation(tr.docs, lang.i18n, keys)]
        /\ UNCHANGED trRest

InitTranslate ==
    /\ ClassifyIdle
    /\ WorkerIdle
    /\ md = NoMembersDirectory
    /\ blog = NoBlogSystem
    /\ search = NoSiteSearch
    /\ forms = NoForm
    /\ an = NoAnalytics
    /\ boot = NoBoot
    /\ tm = NoThemeManager
    /\ store = EmptyStore
    /\ \E l \in Languages : lang = LangAt(l)
    /\ tr = [NoTranslator EXCEPT !.phase = "loading"]

NextTranslate ==
    \/ loadTranslations
    \/ themeTranslate
    \/ i18nGetTranslation

SpecTranslate == InitTranslate /\ [][NextTranslate]_vars

(***************************************************************************)
(* Claims about the translation lookup.                                    *)
(***************************************************************************)

\* The text a key path resolves to in a document, if it resolves.
Resolves(doc, keys) == walkFrom(doc, keys, 1).t = "string"

\* C21: a lookup returns the text of the current language when the key
\* resolves there, otherwise the text of the default language when the
\* key resolves there, otherwise the literal key, in both
\* implementations.
C21_LookupFallsBack ==
    tr.impl # "none"
        => LET current == IF tr.impl = "theme" THEN lang.theme ELSE lang.i18n
           IN  tr.result =
                 IF Resolves(tr.docs[current], tr.key)
                 THEN ReturnedText(walkFrom(tr.docs[current], tr.key, 1).v)
                 ELSE IF Resolves(tr.docs["en"], tr.key)
                 THEN ReturnedText(walkFrom(tr.docs["en"], tr.key, 1).v)
                 ELSE ReturnedKey

(***************************************************************************)
(* Form submission: FormsHandler.handleContactForm / handleVolunteerForm   *)
(* with validateForm / validateField (forms.js), and                       *)
(* ScriptySphereApp.handleContactSubmit with its own validateForm /        *)
(* validateField (main.js).                                                *)
(***************************************************************************)

\* The contact and volunteer forms with their constraints: a required
\* name, a required e-mail address, an optional phone number, a required
\* message and the honeypot.
ContactFields ==
    <<[name |-> "fullname", type |-> "text", required |-> TRUE],
      [name |-> "email", type |-> "email", required |-> TRUE],
      [name |-> "phone", type |-> "tel", required |-> FALSE],
      [name |-> "message", type |-> "textarea", required |-> TRUE],
      [name |-> "bot-field", type |-> "hidden", required |-> FALSE]>>

SubmitLayouts ==
    {[name |-> "contact", fields |-> ContactFields],
     [name |-> "volunteer", fields |-> ContactFields]}

\* What the user can put into a field of each type.
ValuesOfType(type) ==
    IF type = "email"
    THEN {<<>>, <<"a", "@", "b">>, <<"a", "@", "b", ".", "c">>}
    ELSE IF type = "tel"
    THEN {<<>>, <<"1", "2", "3">>,
          <<"0", "1", "7", "1", "2", "3", "4", "5", "6", "7", "8">>,
          <<"9", "1", "7", "1", "2", "3", "4", "5", "6", "7">>}
    ELSE IF type = "textarea"
    THEN {<<>>, <<"H", "i", " ">>, <<"H", "e", "l", "l", "o", " ", "t", "h", "e", "r", "e">>}
    ELSE IF type = "hidden"
    THEN {<<>>, <<"x">>}
    ELSE {<<>>, <<" ", "A">>, <<"A", "l">>}

Digits == {"0", "1", "2", "3", "4", "5", "6", "7", "8", "9"}

\* /^[^\s@]+@[^\s@]+\.[^\s@]+$/.test(email): no space, one @ with
\* something before it, and a dot after it with something on both sides.
validateEmail(email) ==
    \E i \in 2..Len(email) : \E j \in (i + 2)..(Len(email) - 1) :
        /\ email[i] = "@"
        /\ email[j] = "."
        /\ \A k \in 1..Len(email) : email[k] # " " /\ (email[k] = "@" => k = i)

\* phone.replace(/\D/g, ''): the digits of the phone number.
RECURSIVE digitsPrefix(_, _)
digitsPrefix(phone, n) ==
    IF n = 0 THEN <<>>
    ELSE IF phone[n] \in Digits THEN Append(digitsPrefix(phone, n - 1), phone[n])
    ELSE digitsPrefix(phone, n - 1)

\* /^(\+?88)?01[3-9]\d{8}$/ on a string of digits.
isBDMobile(cleaned) ==
    \E skip \in {0, 2} :
        /\ Len(cleaned) = skip + 11
        /\ skip = 2 => (cleaned[1] = "8" /\ cleaned[2] = "8")
        /\ cleaned[skip + 1] = "0"
        /\ cleaned[skip + 2] = "1"
        /\ cleaned[skip + 3] \in Digits \ {"0", "1", "2"}

\* /^(\+?880)?1[3-9]\d{8}$/ on a string of digits.
isBDMobileAlt(cleaned) ==
    \E skip \in {0, 3} :
        /\ Len(cleaned) = skip + 10
        /\ skip = 3 => (cleaned[1] = "8" /\ cleaned[2] = "8" /\ cleaned[3] = "0")
        /\ cleaned[skip + 1] = "1"
        /\ cleaned[skip + 2] \in Digits \ {"0", "1", "2"}

\* FormsHandler.validatePhone: one of the two mobile patterns or any 10 or
\* 11 digits.
validatePhone(phone) ==
    LET cleaned == digitsPrefix(phone, Len(phone))
    IN  isBDMobile(cleaned) \/ isBDMobileAlt(cleaned) \/ Len(cleaned) \in {10, 11}

\* ScriptySphereApp.validateBDPhone: the first mobile pattern only.
validateBDPhone(phone) == isBDMobile(digitsPrefix(phone, Len(phone)))

\* FormsHandler.validateField(field) on the trimmed value.
validateField(field, fieldValue) ==
    LET value == trim(fieldValue)
    IN  IF field.required /\ value = <<>> THEN FALSE
        ELSE IF field.type = "email" /\ value # <<>> /\ ~validateEmail(value) THEN FALSE
        ELSE IF field.type = "tel" /\ value # <<>> /\ ~validatePhone(value) THEN FALSE
        ELSE IF field.type = "text" /\ value # <<>> /\ Len(value) < 2 THEN FALSE
        ELSE IF field.type = "textarea" /\ value # <<>> /\ Len(value) < 10 THEN FALSE
        ELSE TRUE

\* FormsHandler.validateForm(form): validateField over the fields that
\* carry the required attribute.
validateForm(layout, state) ==
    \A i \in 1..Len(layout.fields) :
        layout.fields[i].required => validateField(layout.fields[i], state[i].value)

\* ScriptySphereApp.validateField(field): required, e-mail and phone.
appValidateField(field, fieldValue) ==
    LET value == trim(fieldValue)
    IN  IF field.required /\ value = <<>> THEN FALSE
        ELSE IF field.type = "email" /\ value # <<>> /\ ~validateEmail(value) THEN FALSE
        ELSE IF field.type = "tel" /\ value # <<>> /\ ~validateBDPhone(value) THEN FALSE
        ELSE TRUE

\* ScriptySphereApp.validateForm(form): over input[required] and
\* textarea[required].
appValidateForm(layout, state) ==
    \A i \in 1..Len(layout.fields) :
        layout.fields[i].required => appValidateField(layout.fields[i], state[i].value)

\* The fields of a form that holds nothing: as rendered and after
\* form.reset().
emptyState(layout) ==
    [i \in 1..Len(layout.fields) |-> [value |-> <<>>, checked |-> FALSE]]

\* An input event on a field; the honeypot listener marks the form as
\* spam when the honeypot field gets a value.
submitFormInput ==
    \E i \in 1..Len(forms.layout.fields) :
    \E v \in ValuesOfType(forms.layout.fields[i].type) :
        /\ forms.phase = "filling"
        /\ forms' = [forms EXCEPT !.state[i].value = v,
                                  !.spam = @ \/ (forms.layout.fields[i].name = "bot-field"
                                                 /\ v # <<>>),
                                  !.lastOp = "input"]
        /\ UNCHANGED formsRest

\* A submit of the form handled by FormsHandler: without a valid form
\* nothing is sent; a contact form marked as spam is reset without being
\* sent; otherwise the POST is issued and the form is reset when the
\* response is ok.
formsHandlerSubmit ==
    \E ok \in BOOLEAN :
        /\ forms.phase = "filling"
        /\ forms' =
             IF ~validateForm(forms.layout, forms.state)
             THEN [forms EXCEPT !.lastOp = "blocked"]
             ELSE IF forms.layout.name = "contact" /\ forms.spam
             THEN [forms EXCEPT !.state = emptyState(forms.layout), !.lastOp = "dropped"]
             ELSE [forms EXCEPT !.state = IF ok THEN emptyState(forms.layout) ELSE @,
                                !.lastOp = "post"]
        /\ UNCHANGED formsRest

\* A submit of a contact form handled by ScriptySphereApp.
handleContactSubmit ==
    \E ok \in BOOLEAN :
        /\ forms.phase = "filling"
        /\ forms.layout.name = "contact"
        /\ forms' =
             IF ~appValidateForm(forms.layout, forms.state)
             THEN [forms EXCEPT !.lastOp = "blocked"]
             ELSE [forms EXCEPT !.state = IF ok THEN emptyState(forms.layout) ELSE @,
                                !.lastOp = "post"]
        /\ UNCHANGED formsRest

InitSubmit ==
    /\ ClassifyIdle
    /\ WorkerIdle
    /\ md = NoMembersDirectory
    /\ blog = NoBlogSystem
    /\ lang = LangAt("en")
    /\ search = NoSiteSearch
    /\ SiteIdle
    /\ \E layout \in SubmitLayouts :
        forms = [NoForm EXCEPT !.phase = "filling", !.layout = layout,
                               !.state = emptyState(layout), !.lastOp = "render"]

NextSubmit ==
    \/ submitFormInput
    \/ formsHandlerSubmit
    \/ handleContactSubmit

SpecSubmit == InitSubmit /\ [][NextSubmit]_vars

(***************************************************************************)
(* Claims about form submission.                                           *)
(***************************************************************************)

\* A field of the form violates its field contract.
SomeFieldViolates(layout, state) ==
    \E i \in 1..Len(layout.fields) : ~validateField(layout.fields[i], state[i].value)

\* C22: while any field of a contact or volunteer form violates its field
\* contract (required but empty, malformed e-mail, malformed phone,
\* too-short text or message), a submit of the form issues no POST.
C22_InvalidFormNotPosted ==
    [][forms'.lastOp = "post" => ~SomeFieldViolates(forms.layout, forms.state)]_vars

(***************************************************************************)
(* Storage operations: every function of the page scripts that reads or    *)
(* writes localStorage or sessionStorage, each with its own try / catch.   *)
(***************************************************************************)

\* The most events of one buffer followed.
MaxBuffered == 1

\* The values of the cookie-consent item: none, {"analytics": true} and
\* {"analytics": false}.
ConsentItems == {"null", "granted", "denied"}

Themes == {"light", "dark"}

\* The operation op ends on the store s: by returning, or by an exception
\* that leaves it.
Ended(s, op, threw) == [s EXCEPT !.call = [op |-> op, threw |-> threw]]

\* An operation whose storage accesses all stand inside its try block:
\* when the store throws the catch block ends it, otherwise it has the
\* effect after.
InsideTry(s, op, after) ==
    IF s.throws THEN Ended(s, op, FALSE) ELSE Ended(after, op, FALSE)

\* An operation whose first storage access stands outside its try block:
\* when the store throws the exception leaves the operation.
OutsideTry(s, op, after) ==
    IF s.throws THEN Ended(s, op, TRUE) ELSE Ended(after, op, FALSE)

\* localStorage.getItem(key) / sessionStorage.getItem(key) as seen by a
\* caller whose catch block returns null.
getItemOrNull(s, key) == IF s.throws THEN "null" ELSE s.items[key]

\* The read-modify-write of an event buffer: parse the item or [], push
\* one event, keep the last limit events, store.
pushEvent(s, key, limit) ==
    [s EXCEPT !.buffers[key] = IF @ + 1 > limit THEN limit ELSE @ + 1]

\* I18n.getStoredLanguage() / setStoredLanguage(lang) of theme.js.
getStoredLanguage(s) == InsideTry(s, "getStoredLanguage", s)

setStoredLanguage(s, l) ==
    InsideTry(s, "setStoredLanguage", [s EXCEPT !.items["preferred-language"] = l])

\* I18nManager.getSavedLanguage() / saveLanguage() of i18n.js.
getSavedLanguage(s) == InsideTry(s, "getSavedLanguage", s)

saveLanguage(s, l) == InsideTry(s, "saveLanguage", [s EXCEPT !.items["ss-language"] = l])

\* ThemeManager.getStoredTheme() / setStoredTheme(theme) and the removal
\* in resetToSystem() of partials.js.
getStoredTheme(s) == InsideTry(s, "getStoredTheme", s)

setStoredTheme(s, theme) ==
    InsideTry(s, "setStoredTheme", [s EXCEPT !.items["preferred-theme"] = theme])

removeStoredTheme(s) ==
    InsideTry(s, "resetToSystem", [s EXCEPT !.items["preferred-theme"] = "null"])

\* FormsHandler.saveFormData / restoreFormData / clearSavedFormData on the
\* draft item of the contact form.
storeFormDraft(s) ==
    InsideTry(s, "saveFormData", [s EXCEPT !.items["form-draft-contact"] = "draft"])

readFormDraft(s) == InsideTry(s, "restoreFormData", s)

clearSavedFormData(s) ==
    InsideTry(s, "clearSavedFormData", [s EXCEPT !.items["form-draft-contact"] = "null"])

\* FormsHandler.trackFormSubmission: inside one try, the consent item is
\* read and, with analytics consent, an event is pushed to the
\* form-analytics buffer, which keeps 20.
trackFormSubmission(s) ==
    InsideTry(s, "trackFormSubmission",
              IF s.items["cookie-consent"] = "granted"
              THEN pushEvent(s, "form-analytics", 20) ELSE s)

\* SiteSearch.trackSearch: the consent item is read and parsed before the
\* try block; with analytics consent an event is pushed to the
\* search-analytics buffer, which keeps 10.
trackSearch(s) ==
    OutsideTry(s, "trackSearch",
               IF s.items["cookie-consent"] = "granted"
               THEN pushEvent(s, "search-analytics", 10) ELSE s)

\* Analytics.checkConsent(): the consent item is read inside a try.
checkConsentRead(s) == InsideTry(s, "checkConsent", s)

\* Analytics.trackSimpleEvent: an event is pushed to the simple-analytics
\* buffer, which keeps 50.
trackSimpleEvent(s) ==
    InsideTry(s, "trackSimpleEvent", pushEvent(s, "simple-analytics", 50))

\* The removal in Analytics.disable().
removeSimpleAnalytics(s) ==
    InsideTry(s, "disable", [s EXCEPT !.buffers["simple-analytics"] = 0])

\* Analytics.getStoredData() / deleteStoredData().
getStoredData(s) == InsideTry(s, "getStoredData", s)

deleteStoredData(s) ==
    InsideTry(s, "deleteStoredData",
              [s EXCEPT !.buffers = [key \in DOMAIN s.buffers |-> 0]])

\* Everything but the stores.
storeRest == <<ev, responded, swState, install, activation, caches, dynFill, netVer,
               req, bg, done, nEvents, md, blog, lang, search, forms, tr, an, tm, boot>>

\* Access to the stores starts or stops throwing (storage disabled, quota
\* or privacy mode).
storeAccessChanges ==
    /\ store' = [store EXCEPT !.throws = ~@]
    /\ UNCHANGED storeRest

\* The consent banner, which is not part of these scripts, stores the
\* visitor's choice.
consentStored ==
    \E item \in ConsentItems :
        /\ ~store.throws
        /\ store' = [store EXCEPT !.items["cookie-consent"] = item]
        /\ UNCHANGED storeRest

\* A call of one of the language preference operations.
languageStoreCall ==
    \E l \in Languages :
        /\ store' \in {getStoredLanguage(store), setStoredLanguage(store, l),
                       getSavedLanguage(store), saveLanguage(store, l)}
        /\ UNCHANGED storeRest

\* A call of one of the theme preference operations.
themeStoreCall ==
    \E theme \in Themes :
        /\ store' \in {getStoredTheme(store), setStoredTheme(store, theme),
                       removeStoredTheme(store)}
        /\ UNCHANGED storeRest

\* A call of one of the form draft operations.
draftStoreCall ==
    /\ store' \in {storeFormDraft(store), readFormDraft(store), clearSavedFormData(store)}
    /\ UNCHANGED storeRest

\* A call of FormsHandler.trackFormSubmission.
trackFormSubmissionCall ==
    /\ store.buffers["form-analytics"] < MaxBuffered
    /\ store' = trackFormSubmission(store)
    /\ UNCHANGED storeRest

\* A call of SiteSearch.trackSearch.
trackSearchCall ==
    /\ store.buffers["search-analytics"] < MaxBuffered
    /\ store' = trackSearch(store)
    /\ UNCHANGED storeRest

\* A call of Analytics.trackSimpleEvent.
trackSimpleEventCall ==
    /\ store.buffers["simple-analytics"] < MaxBuffered
    /\ store' = trackSimpleEvent(store)
    /\ UNCHANGED storeRest

\* A call of one of the other storage operations of Analytics.
analyticsStoreCall ==
    /\ store' \in {checkConsentRead(store), removeSimpleAnalytics(store),
                   getStoredData(store), deleteStoredData(store)}
    /\ UNCHANGED storeRest

InitStorage ==
    /\ ClassifyIdle
    /\ WorkerIdle
    /\ md = NoMembersDirectory
    /\ blog = NoBlogSystem
    /\ lang = LangAt("en")
    /\ search = NoSiteSearch
    /\ forms = NoForm
    /\ SiteIdle

NextStorage ==
    \/ storeAccessChanges
    \/ consentStored
    \/ languageStoreCall
    \/ themeStoreCall
    \/ draftStoreCall
    \/ trackFormSubmissionCall
    \/ trackSearchCall
    \/ trackSimpleEventCall
    \/ analyticsStoreCall

SpecStorage == InitStorage /\ [][NextStorage]_vars

(***************************************************************************)
(* Claims about the storage operations.                                    *)
(***************************************************************************)

\* C23: every operation that reads or writes the persistent or session
\* store completes normally when the store throws on access: no storage
\* exception leaves the operation.
C23_StorageFailuresSwallowed == ~store.call.threw

(***************************************************************************)
(* Claims about the blog listing.                                          *)
(***************************************************************************)

\* The posts of the list are in descending order of their dates.
NewestFirst(list) ==
    \A i \in 1..Len(list) : \A j \in (i + 1)..Len(list) : list[i].date >= list[j].date

\* C24: with no category filter and no search active - after load and
\* after a category was selected and cleared again - the blog's visible
\* post list is in descending publish-date order.
C24_UnfilteredNewestFirst ==
    (blog.phase = "ready" /\ blog.currentCategory = <<>>
        /\ blog.lastOp \in {"init", "filterPosts"})
        => NewestFirst(blog.filteredPosts)

\* The query is part of the post's title, excerpt or one of its tags.
QueryMatches(post, query) ==
    \/ Includes(toLowerCase(post.title), toLowerCase(query))
    \/ Includes(toLowerCase(post.excerpt), toLowerCase(query))
    \/ \E k \in 1..Len(post.tags) : Includes(toLowerCase(post.tags[k]), toLowerCase(query))

\* C30: for a query of at least 2 characters, searchPosts yields exactly
\* the posts that match the query and, with an active category, belong to
\* that category.
C30_SearchConjunctiveWithCategory ==
    [][\A query \in Queries :
        (blog.phase = "ready" /\ Len(query) >= 2 /\ blog' = searchPosts(blog, query))
            => blog'.filteredPosts =
                 SelectSeq(blog.posts,
                           LAMBDA post :
                               /\ QueryMatches(post, query)
                               /\ blog.currentCategory # <<>>
                                    => inCategory(post, blog.currentCategory))]_vars

(***************************************************************************)
(* The query methods of BlogSystem: getRelatedPosts, getPopularPosts and   *)
(* getPostsByCategory.                                                     *)
(***************************************************************************)

\* Array.prototype.sort with (a, b) => (b.views || 0) - (a.views || 0) on
\* the first n posts of the list: most viewed first, stable.
RECURSIVE sortByViewsPrefix(_, _)
sortByViewsPrefix(list, n) ==
    IF n = 0 THEN <<>>
    ELSE TheOne({
            TheOne({SubSeq(sorted, 1, at - 1) \o <<list[n]>> \o SubSeq(sorted, at, Len(sorted)) :
                at \in {Cardinality({j \in 1..Len(sorted) :
                                        list[n].views - sorted[j].views <= 0}) + 1}}) :
            sorted \in {sortByViewsPrefix(list, n - 1)}})

\* getRelatedPosts(currentPost, limit): the first limit posts other than
\* currentPost of its category or sharing a tag with it.
getRelatedPosts(b, currentPost, limit) ==
    [b EXCEPT !.returned =
        slice(SelectSeq(b.posts,
                        LAMBDA post :
                            /\ post.id # currentPost.id
                            /\ \/ post.category = currentPost.category
                               \/ \E k \in 1..Len(post.tags) :
                                    \E m \in 1..Len(currentPost.tags) :
                                        post.tags[k] = currentPost.tags[m]),
              0, limit),
              !.lastOp = "getRelatedPosts"]

\* getPopularPosts(limit): this.posts.sort(...) sorts the posts array
\* itself by views and returns it; the first limit posts of it are
\* returned.
getPopularPosts(b, limit) ==
    [b EXCEPT !.posts = sortByViewsPrefix(b.posts, Len(b.posts)),
              !.returned = slice(sortByViewsPrefix(b.posts, Len(b.posts)), 0, limit),
              !.lastOp = "getPopularPosts"]

\* getPostsByCategory(category, limit): the posts of the category, the
\* first limit of them when a limit is given (0 for none).
getPostsByCategory(b, category, limit) ==
    [b EXCEPT !.returned =
        IF limit # 0
        THEN slice(SelectSeq(b.posts, LAMBDA post : inCategory(post, category)), 0, limit)
        ELSE SelectSeq(b.posts, LAMBDA post : inCategory(post, category)),
              !.lastOp = "getPostsByCategory"]

\* A call of one of the query methods.
getRelatedPostsCall ==
    /\ blog.phase = "ready"
    /\ \E i \in 1..Len(blog.posts) :
          /\ i <= 2
          /\ blog' = getRelatedPosts(blog, blog.posts[i], 3)
    /\ UNCHANGED blogRest

getPopularPostsCall ==
    /\ blog.phase = "ready"
    /\ blog' = getPopularPosts(blog, 5)
    /\ UNCHANGED blogRest

getPostsByCategoryCall ==
    /\ blog.phase = "ready"
    /\ \E limit \in {0, 2} : blog' = getPostsByCategory(blog, News, limit)
    /\ UNCHANGED blogRest

\* The blog page with its query methods called by other scripts.
NextBlogQueries ==
    \/ NextBlog
    \/ getRelatedPostsCall
    \/ getPopularPostsCall
    \/ getPostsByCategoryCall

SpecBlogQueries == InitBlog /\ [][NextBlogQueries]_vars

\* C25: no filter, sort, search, pagination or query operation changes
\* the contents or the order of the loaded posts collection.
C25_LoadedPostsNotMutated ==
    [][blog.phase = "ready" => blog'.posts = blog.posts]_vars

(***************************************************************************)
(* The analytics shim (class Analytics of analytics.js).                   *)
(***************************************************************************)

\* The providers the switches of init and trackEvent tell apart; the
\* default branch is the session-buffer fallback.  The constructor names
\* one of them.
Providers == {"plausible", "goatcounter", "umami", "simple"}

\* Analytics.init(): nothing when already initialized or without consent;
\* otherwise the provider is set up and initialized becomes true.  The
\* fallback's initSimpleAnalytics calls trackPageView while initialized is
\* still false, which trackEvent ignores.
analyticsInit(a) ==
    IF a.initialized \/ ~a.consentGiven THEN a ELSE [a EXCEPT !.initialized = TRUE]

\* A plausible slip: disable removes the scripts and the buffer but leaves
\* the flag set.
analyticsDisableKeepsFlag(a) == a

\* Analytics.disable(): initialized becomes false (the session buffer is
\* removed from the store by removeSimpleAnalytics).
analyticsDisable(a) == [a EXCEPT !.initialized = FALSE]

\* Where Analytics.trackEvent delivers the event on store s, "none" when
\* it returns without delivering.
trackEventTarget(a, s) ==
    IF ~a.consentGiven \/ ~a.initialized THEN "none"
    ELSE CASE a.provider = "plausible" -> "plausible"
           [] a.provider = "goatcounter" -> "goatcounter"
           [] a.provider = "umami" -> IF a.umami THEN "umami" ELSE "none"
           [] OTHER -> IF s.throws THEN "none" ELSE "buffer"

\* The store after Analytics.trackEvent.
trackEventStore(a, s) ==
    IF a.consentGiven /\ a.initialized /\ a.provider = "simple"
    THEN trackSimpleEvent(s) ELSE s

\* Everything but the shim and the stores.
anRest == <<ev, responded, swState, install, activation, caches, dynFill, netVer,
            req, bg, done, nEvents, md, blog, lang, search, forms, tr, tm, boot>>

\* DOMContentLoaded: new Analytics().  The constructor runs checkConsent,
\* which reads the consent item inside a try and, with analytics consent
\* stored, runs init.
AnalyticsConstructor ==
    \E provider \in Providers :
        /\ an.phase = "absent"
        /\ an' = analyticsInit([an EXCEPT
                    !.phase = "ready",
                    !.provider = provider,
                    !.consentGiven = (getItemOrNull(store, "cookie-consent") = "granted"),
                    !.lastOp = "constructor"])
        /\ store' = checkConsentRead(store)
        /\ UNCHANGED anRest

\* The cookieConsentChanged listener registered by checkConsent.
cookieConsentChanged ==
    \E analytics \in BOOLEAN :
        /\ an.phase = "ready"
        /\ an' = TheOne({
                    IF a.consentGiven /\ ~a.initialized THEN analyticsInit(a)
                    ELSE IF ~a.consentGiven /\ a.initialized THEN analyticsDisable(a)
                    ELSE a :
                    a \in {[an EXCEPT
                              !.consentGiven = analytics,
                              !.notified = IF analytics THEN "granted" ELSE "withdrawn",
                              !.delivered = "none",
                              !.lastOp = "cookieConsentChanged"]}})
        /\ store' = IF ~analytics /\ an.initialized THEN removeSimpleAnalytics(store) ELSE store
        /\ UNCHANGED anRest

\* The Umami script loaded by init defines window.umami.
umamiLoads ==
    /\ an.phase = "ready"
    /\ an.provider = "umami"
    /\ an.initialized
    /\ ~an.umami
    /\ an' = [an EXCEPT !.umami = TRUE, !.delivered = "none", !.lastOp = "umamiLoads"]
    /\ UNCHANGED <<store, anRest>>

\* A call of Analytics.trackEvent, directly or through one of the helpers
\* that only call it.
trackEvent ==
    /\ an.phase = "ready"
    /\ trackEventTarget(an, store) = "buffer" => store.buffers["simple-analytics"] < MaxBuffered
    /\ an' = [an EXCEPT !.delivered = trackEventTarget(an, store), !.lastOp = "trackEvent"]
    /\ store' = trackEventStore(an, store)
    /\ UNCHANGED anRest

\* A call of Analytics.trackPageView, which returns without consent and
\* otherwise calls trackEvent.
trackPageView ==
    /\ an.phase = "ready"
    /\ trackEventTarget(an, store) = "buffer" => store.buffers["simple-analytics"] < MaxBuffered
    /\ an' = [an EXCEPT
                !.delivered = IF ~an.consentGiven THEN "none" ELSE trackEventTarget(an, store),
                !.lastOp = "trackPageView"]
    /\ store' = IF ~an.consentGiven THEN store ELSE trackEventStore(an, store)
    /\ UNCHANGED anRest

\* The stores change under the shim: access starts or stops throwing, the
\* consent banner stores a choice.
analyticsStoreChanges ==
    /\ an.phase = "ready"
    /\ \/ store' = [store EXCEPT !.throws = ~@]
       \/ \E item \in ConsentItems :
            /\ ~store.throws
            /\ store' = [store EXCEPT !.items["cookie-consent"] = item]
    /\ an' = [an EXCEPT !.delivered = "none", !.lastOp = "storeChanges"]
    /\ UNCHANGED anRest

\* A page view starts with any consent item stored by an earlier visit.
InitAnalytics ==
    /\ ClassifyIdle
    /\ WorkerIdle
    /\ md = NoMembersDirectory
    /\ blog = NoBlogSystem
    /\ lang = LangAt("en")
    /\ search = NoSiteSearch
    /\ forms = NoForm
    /\ tr = NoTranslator
    /\ an = NoAnalytics
    /\ boot = NoBoot
    /\ tm = NoThemeManager
    /\ \E item \in ConsentItems, throws \in BOOLEAN :
          store = [EmptyStore EXCEPT !.items["cookie-consent"] = item, !.throws = throws]

NextAnalytics ==
    \/ AnalyticsConstructor
    \/ cookieConsentChanged
    \/ umamiLoads
    \/ trackEvent
    \/ trackPageView
    \/ analyticsStoreChanges

SpecAnalytics == InitAnalytics /\ [][NextAnalytics]_vars

(***************************************************************************)
(* Claims about the analytics shim.                                        *)
(***************************************************************************)

\* C26: the shim being initialized implies consent is given; a tracking
\* call delivers an event to a provider or to the session buffer only when
\* consent was given and the shim was initialized at the call; and once a
\* consent-withdrawn notification has arrived, no event is delivered (the
\* shim is neither consenting nor initialized) until a notification grants
\* consent again.
C26_NoTrackingWithoutConsent ==
    [][/\ an'.initialized => an'.consentGiven
       /\ an'.delivered # "none" => (an.consentGiven /\ an.initialized /\ an.notified # "withdrawn")
       /\ an'.notified = "withdrawn" => (~an'.consentGiven /\ ~an'.initialized)
       /\ (an'.delivered = "buffer") =
             (store'.buffers["simple-analytics"] > store.buffers["simple-analytics"])]_vars

\* A tracking call delivered an event after a notification had granted
\* consent.
C26_DeliveredAfterRegrant ==
    /\ an.delivered # "none"
    /\ an.notified = "granted"
    /\ an.lastOp \in {"trackEvent", "trackPageView"}

(***************************************************************************)
(* The theme manager (class ThemeManager of partials.js).                  *)
(***************************************************************************)

\* The other theme.
otherTheme(theme) == IF theme = "light" THEN "dark" ELSE "light"

\* Everything but the theme manager and the stores.
tmRest == <<ev, responded, swState, install, activation, caches, dynFill, netVer,
            req, bg, done, nEvents, md, blog, lang, search, forms, tr, an, boot>>

\* new ThemeManager(): currentTheme = getStoredTheme() || getSystemTheme(),
\* then init applies it.
ThemeManagerConstructor ==
    /\ tm.phase = "absent"
    /\ tm' = [tm EXCEPT
                !.phase = "ready",
                !.currentTheme = IF getItemOrNull(store, "preferred-theme") # "null"
                                 THEN getItemOrNull(store, "preferred-theme")
                                 ELSE tm.system,
                !.lastOp = "constructor"]
    /\ store' = getStoredTheme(store)
    /\ UNCHANGED tmRest

\* toggleTheme(), from a click on a toggle or the T key: the other theme
\* is stored, then applied.
toggleTheme ==
    /\ tm.phase = "ready"
    /\ tm' = [tm EXCEPT !.currentTheme = otherTheme(tm.currentTheme),
                        !.manual = TRUE,
                        !.lastOp = "toggleTheme"]
    /\ store' = setStoredTheme(store, otherTheme(tm.currentTheme))
    /\ UNCHANGED tmRest

\* The change listener of watchSystemTheme: the operating system switches
\* its colour scheme; the new scheme is applied if getStoredTheme()
\* returns nothing.
systemThemeChange ==
    /\ tm.phase = "ready"
    /\ tm' = [tm EXCEPT
                !.system = otherTheme(tm.system),
                !.currentTheme = IF getItemOrNull(store, "preferred-theme") = "null"
                                 THEN otherTheme(tm.system)
                                 ELSE @,
                !.lastOp = "systemThemeChange"]
    /\ store' = getStoredTheme(store)
    /\ UNCHANGED tmRest

\* resetToSystem(): the stored preference is removed inside a try, then
\* the system theme is applied.
resetToSystem ==
    /\ tm.phase = "ready"
    /\ tm' = [tm EXCEPT !.currentTheme = tm.system,
                        !.manual = FALSE,
                        !.lastOp = "resetToSystem"]
    /\ store' = removeStoredTheme(store)
    /\ UNCHANGED tmRest

\* A page view starts with either system scheme, with or without a theme
\* stored by an earlier visit, the stores available or throwing.
InitTheme ==
    /\ ClassifyIdle
    /\ WorkerIdle
    /\ md = NoMembersDirectory
    /\ blog = NoBlogSystem
    /\ lang = LangAt("en")
    /\ search = NoSiteSearch
    /\ forms = NoForm
    /\ tr = NoTranslator
    /\ an = NoAnalytics
    /\ boot = NoBoot
    /\ \E system \in Themes : tm = [NoThemeManager EXCEPT !.system = system]
    /\ \E item \in Themes \cup {"null"}, throws \in BOOLEAN :
          store = [EmptyStore EXCEPT !.items["preferred-theme"] = item, !.throws = throws]

NextTheme ==
    \/ ThemeManagerConstructor
    \/ toggleTheme
    \/ systemThemeChange
    \/ resetToSystem
    \/ storeAccessChanges

SpecTheme == InitTheme /\ [][NextTheme]_vars

(***************************************************************************)
(* Claims about the theme manager.                                         *)
(***************************************************************************)

\* C27: once the visitor has toggled the theme, no later change of the
\* system colour scheme alters the current theme, whether the store is
\* available or throws, until resetToSystem.
C27_ManualThemeOverrides ==
    [][(tm.manual /\ tm'.system # tm.system) => tm'.currentTheme = tm.currentTheme]_vars

(***************************************************************************)
(* Periodic content sync (updateContentCache of the worker).               *)
(***************************************************************************)

\* Two of the four entries of criticalUrls.
criticalUrls == {"membersJson", "searchIndexJson"}

\* The periodicsync listener with tag content-sync: updateContentCache
\* opens the dynamic partition and starts one fetch per critical URL; each
\* fetch that ends ok is followed by cache.put(url, response) on that
\* partition (revalidationSettles, putSettles).  A rejected caches.open is
\* caught and ends the run.  The event counts among the events of the run.
updateContentCache ==
    /\ swState = "activated"
    /\ nEvents < MaxEvents
    /\ nEvents' = nEvents + 1
    /\ \E openFails \in BOOLEAN :
          IF openFails
          THEN UNCHANGED <<caches, bg>>
          ELSE /\ caches' = Open(caches, DYNAMIC_CACHE_NAME)
               /\ bg' = bg \cup {FetchTask(u, "updateContentCache") : u \in criticalUrls}
    /\ UNCHANGED <<swState, install, activation, dynFill, netVer, req, done>>
    /\ UNCHANGED classifyVars
    /\ UNCHANGED pageVars

\* A fetch event for a static asset the install manifest does not list.
FetchEventUnlisted ==
    /\ swState = "activated"
    /\ req = NoReq
    /\ nEvents < MaxEvents
    /\ req' = [NoReq EXCEPT !.url = "logoPng",
                            !.strategy = FetchHandler("GET", "https", "logoPng")[1],
                            !.pc = "start"]
    /\ nEvents' = nEvents + 1
    /\ UNCHANGED <<swState, install, activation, caches, dynFill, netVer, bg, done>>
    /\ UNCHANGED classifyVars
    /\ UNCHANGED pageVars

\* The worker with periodic content sync registered, serving any request.
NextSync ==
    \/ Next
    \/ updateContentCache
    \/ FetchEventUnlisted

SpecSync == Init /\ [][NextSync]_vars

(***************************************************************************)
(* Claims about the partitions.                                            *)
(***************************************************************************)

\* No strategy call is running and no fetch or write started by the worker
\* is pending.
NoOperationInProgress == req = NoReq /\ bg = {}

\* C28: whenever no worker operation is in progress, the dynamic partition
\* holds at most 100 entries.
C28_DynamicPartitionBounded ==
    (swState = "activated" /\ NoOperationInProgress)
        => DynSize(caches, dynFill) <= DYNAMIC_MAX_ENTRIES

\* The entries of the static partition.
StaticEntries(cs) ==
    IF HasCache(cs, STATIC_CACHE_NAME)
    THEN cs[CHOOSE i \in 1..Len(cs) : cs[i].name = STATIC_CACHE_NAME].entries
    ELSE <<>>

\* C29: once the worker is installed, no step of a fetch strategy or of a
\* background operation adds, replaces or removes an entry of the static
\* partition.
C29_StaticPartitionFrozen ==
    [][(swState \in {"installed", "activated"})
          => (StaticEntries(caches') = StaticEntries(caches))]_vars

(***************************************************************************)
(* Claims about the order of filter changes.                               *)
(***************************************************************************)

\* The directory after the search box was given typed and its timeout
\* fired.
afterSearchTyped(m, typed) ==
    applyFilters([m EXCEPT !.filters.search = trim(toLowerCase(typed)),
                           !.searchTimeout = "none", !.lastEvent = "filter",
                           !.hadDependents = FALSE])

\* The blog after the category select was set to value.
afterCategory(b, value) == filterPosts([b EXCEPT !.currentCategory = value])

\* The members shown are the same whether the search term or the role was
\* set first.
MembersOrderIndependent ==
    md.phase = "ready" =>
        \A typed \in TypedSearches :
            \A role \in SelectOptions(md, "role") :
                filterChange(afterSearchTyped(md, typed), "role", role).filteredMembers
                    = afterSearchTyped(filterChange(md, "role", role), typed).filteredMembers

\* The posts shown are the same whether the search query or the category
\* was set first.
PostsOrderIndependent ==
    blog.phase = "ready" =>
        \A query \in Queries :
            \A value \in CategoryValues :
                afterCategory(searchPosts(blog, query), value).filteredPosts
                    = searchPosts(afterCategory(blog, value), query).filteredPosts

\* C31: for the members directory (search term, role) and for the blog
\* (search query, category), the visible result after setting the filter
\* values is the same whatever the order in which they were set.
C31_FilterOrderIndependent == MembersOrderIndependent /\ PostsOrderIndependent

(***************************************************************************)
(* Claims about the language of the search.                                *)
(***************************************************************************)

\* init() of SiteSearch has ended, no index load is awaited and no
\* debounce timeout is pending.
SearchSettled ==
    /\ search.phase = "ready"
    /\ ~search.isLoading
    /\ ~search.pending.active
    /\ search.timers = 0

\* C32: once the language applications and switches of the i18n
\* controller and the index load and listener registration of the search
\* have all completed, the language of the search is the language the i18n
\* controller applied last.
C32_SearchLanguageAgrees == SearchSettled => search.currentLanguage = lang.document

(***************************************************************************)
(* The submit handlers of FormsHandler as whole attempts: what they do to  *)
(* the submit button and how they end.                                     *)
(***************************************************************************)

\* The newsletter form: one e-mail field.
NewsletterFields == <<[name |-> "email", type |-> "email", required |-> TRUE]>>

AttemptLayouts ==
    {[name |-> "contact", fields |-> ContactFields],
     [name |-> "volunteer", fields |-> ContactFields],
     [name |-> "newsletter", fields |-> NewsletterFields]}

\* How the fetch of a submit ends: an ok response, a response that is not
\* ok, or a rejection.
PostOutcomes == {"ok", "notok", "networkError"}

\* The objects the page can have at window.i18n: none, the I18n of
\* theme.js, the I18nManager of i18n.js.
I18nGlobals == {"none", "I18n", "I18nManager"}

\* window.i18n ? window.i18n.t(key) : fallback throws a TypeError when the
\* object has no method t: I18n has one, I18nManager has none.
tThrows(g) == g = "I18nManager"

BusyButton == [label |-> "busy", disabled |-> TRUE]

IdleButton == [label |-> "idle", disabled |-> FALSE]

\* The value of the field called name.
fieldValue(f, name) ==
    f.state[CHOOSE i \in 1..Len(f.layout.fields) : f.layout.fields[i].name = name].value

\* The try block of a handler ends by "return", by "throw" into the catch
\* block, or by running to its end ("done").  A handler's result is the
\* form with its button, whether an exception left the handler, the POSTs
\* issued and the reset state.
\* handleContactForm(form)
handleContactForm(f, outcome) ==
    LET try ==
            IF ~validateForm(f.layout, f.state)
            THEN [exit |-> "return", form |-> [f EXCEPT !.toast = "error"]]
            ELSE IF f.spam
            THEN [exit |-> "return",
                  form |-> [f EXCEPT !.state = emptyState(f.layout), !.toast = "success"]]
            ELSE IF tThrows(f.i18n) THEN [exit |-> "throw", form |-> f]
            ELSE IF outcome = "ok"
            THEN [exit |-> "done",
                  form |-> [f EXCEPT !.button = BusyButton, !.posts = @ + 1,
                                     !.state = emptyState(f.layout), !.toast = "success"]]
            ELSE [exit |-> "throw", form |-> [f EXCEPT !.button = BusyButton, !.posts = @ + 1]]
        catchThrows == try.exit = "throw" /\ tThrows(f.i18n)
        catch == IF try.exit = "throw" /\ ~catchThrows
                 THEN [try.form EXCEPT !.toast = "error"]
                 ELSE try.form
    IN  IF tThrows(f.i18n)
        THEN [catch EXCEPT !.threw = TRUE]
        ELSE [catch EXCEPT !.button = IdleButton, !.threw = catchThrows]

\* handleNewsletterForm(form)
handleNewsletterForm(f, outcome) ==
    LET try ==
            IF ~validateEmail(fieldValue(f, "email"))
            THEN [exit |-> "return", form |-> [f EXCEPT !.toast = "error"]]
            ELSE IF outcome = "ok"
            THEN [exit |-> "done",
                  form |-> [f EXCEPT !.button = BusyButton, !.posts = @ + 1,
                                     !.state = emptyState(f.layout), !.toast = "success"]]
            ELSE [exit |-> "throw",
                  form |-> [f EXCEPT !.button = BusyButton, !.posts = @ + 1,
                                     !.toast = "error"]]
    IN  [try.form EXCEPT !.button = IdleButton, !.threw = FALSE]

\* handleVolunteerForm(form): the finally block reads originalText, a
\* const of the try block that is not in scope there; the ReferenceError
\* leaves the handler before the button is enabled.
handleVolunteerForm(f, outcome) ==
    LET try ==
            IF ~validateForm(f.layout, f.state)
            THEN [exit |-> "return", form |-> [f EXCEPT !.toast = "error"]]
            ELSE IF outcome = "ok"
            THEN [exit |-> "done",
                  form |-> [f EXCEPT !.button = BusyButton, !.posts = @ + 1,
                                     !.state = emptyState(f.layout), !.toast = "success"]]
            ELSE [exit |-> "throw",
                  form |-> [f EXCEPT !.button = BusyButton, !.posts = @ + 1,
                                     !.toast = "error"]]
    IN  [try.form EXCEPT !.threw = TRUE]

\* The submit listener of setupFormHandlers: by the name of the form.
setupFormHandlers(f, outcome) ==
    IF f.layout.name = "contact" THEN handleContactForm(f, outcome)
    ELSE IF f.layout.name = "newsletter" THEN handleNewsletterForm(f, outcome)
    ELSE IF f.layout.name = "volunteer" THEN handleVolunteerForm(f, outcome)
    ELSE f

\* A submit of the form with FormsHandler on the page.
submitAttempt ==
    \E outcome \in PostOutcomes :
        /\ forms.phase = "filling"
        /\ forms' = [setupFormHandlers([forms EXCEPT !.posts = 0, !.threw = FALSE,
                                                     !.toast = "none"], outcome)
                        EXCEPT !.lastOp = "submit"]
        /\ UNCHANGED formsRest

InitAttempt ==
    /\ ClassifyIdle
    /\ WorkerIdle
    /\ md = NoMembersDirectory
    /\ blog = NoBlogSystem
    /\ lang = LangAt("en")
    /\ search = NoSiteSearch
    /\ SiteIdle
    /\ \E layout \in AttemptLayouts, g \in I18nGlobals :
        forms = [NoForm EXCEPT !.phase = "filling", !.layout = layout,
                               !.state = emptyState(layout), !.lastOp = "render",
                               !.i18n = g]

NextAttempt ==
    \/ submitFormInput
    \/ submitAttempt

SpecAttempt == InitAttempt /\ [][NextAttempt]_vars

\* C33: after every submission attempt handled by FormsHandler, whatever
\* its outcome, no exception has left the handler and the submit button
\* is enabled with its idle label.
C33_AttemptEndsIdle ==
    forms.lastOp = "submit" =>
        /\ ~forms.threw
        /\ ~forms.button.disabled
        /\ forms.button.label \in {"original", "idle"}

(***************************************************************************)
(* A contact page with both the application script (main.js) and the      *)
(* forms script (forms.js) loaded.                                         *)
(***************************************************************************)

\* ScriptySphereApp.handleContactSubmit(e) as a whole attempt: validation,
\* then the busy button (window.i18n.t outside the try block), the POST,
\* and the button written back in the finally block.
appHandleContactSubmit(f, outcome) ==
    IF ~appValidateForm(f.layout, f.state) THEN f
    ELSE IF tThrows(f.i18n) THEN [f EXCEPT !.threw = TRUE]
    ELSE [f EXCEPT !.posts = @ + 1,
                   !.state = IF outcome = "ok" THEN emptyState(f.layout) ELSE @,
                   !.toast = IF outcome = "ok" THEN "success" ELSE "error",
                   !.button = [label |-> "original", disabled |-> FALSE]]

\* One submit of the contact form: the listener initFormHandlers put on
\* the form runs, then the event reaches the document, where the listener
\* of setupFormHandlers runs; both act on the form as submitted, each
\* awaiting its own response.  The state of the page afterwards is the one
\* the handler that finished last left, with the POSTs of both, the form
\* reset if either reset it.
submitWithBothScripts ==
    \E appOutcome \in PostOutcomes, formsOutcome \in PostOutcomes, appLast \in BOOLEAN :
        /\ forms.phase = "filling"
        /\ forms.layout.name = "contact"
        /\ forms' = TheOne({
              TheOne({
                 [(IF appLast THEN a ELSE h) EXCEPT
                     !.posts = a.posts + h.posts,
                     !.threw = a.threw \/ h.threw,
                     !.state = IF a.state # forms.state THEN a.state ELSE h.state,
                     !.lastOp = "submitBoth"] :
                 h \in {handleContactForm(
                           [forms EXCEPT !.posts = 0, !.threw = FALSE, !.toast = "none"],
                           formsOutcome)}}) :
              a \in {appHandleContactSubmit(
                        [forms EXCEPT !.posts = 0, !.threw = FALSE, !.toast = "none"],
                        appOutcome)}})
        /\ UNCHANGED formsRest

InitBothScripts ==
    /\ ClassifyIdle
    /\ WorkerIdle
    /\ md = NoMembersDirectory
    /\ blog = NoBlogSystem
    /\ lang = LangAt("en")
    /\ search = NoSiteSearch
    /\ SiteIdle
    /\ \E g \in I18nGlobals :
        forms = [NoForm EXCEPT !.phase = "filling",
                               !.layout = [name |-> "contact", fields |-> ContactFields],
                               !.state = emptyState([name |-> "contact",
                                                     fields |-> ContactFields]),
                               !.lastOp = "render", !.i18n = g]

NextBothScripts ==
    \/ submitFormInput
    \/ submitWithBothScripts

SpecBothScripts == InitBothScripts /\ [][NextBothScripts]_vars

\* C34: with both scripts loaded, one submit of a contact form results in
\* at most one POST.
C34_OneSubmitOnePost == forms.lastOp = "submitBoth" => forms.posts <= 1

\* C35: once the honeypot field has received non-empty input, no submit of
\* the form issues a POST from any handler; the form is reset and a
\* success message is shown instead.
C35_HoneypotNeverPosts ==
    [][(forms.spam /\ forms'.lastOp \in {"submit", "submitBoth"})
          => (/\ forms'.posts = 0
              /\ forms'.state = emptyState(forms.layout)
              /\ forms'.toast = "success")]_vars

(***************************************************************************)
(* The click listeners of the pagination containers.                       *)
(***************************************************************************)

\* Listeners on a pagination container followed by the model.
MaxClickListeners == 3

\* The end of renderPagination when there is more than one page:
\* pagination.addEventListener('click', ...) with a new function, which
\* adds a listener to the container each time.
addPaginationListener(c) ==
    IF c.pagination > 0 THEN [c EXCEPT !.clickListeners = @ + 1] ELSE c

\* A change of a filter select of the members directory: applyFilters,
\* whose renderPagination adds its listener.
filterChangeRegisters ==
    /\ md.phase = "ready"
    /\ md.clickListeners < MaxClickListeners
    /\ \E filterType \in FilterTypes :
          \E value \in SelectOptions(md, filterType) :
              md' = addPaginationListener(filterChange(md, filterType, value))
    /\ UNCHANGED membersRest

\* A click on a button of the members pagination: every click listener of
\* the container runs and calls goToPage(page), and the renderPagination
\* of each call adds one more listener.
paginationClick ==
    /\ md.phase = "ready"
    /\ md.pagination > 0
    /\ md.clickListeners > 0
    /\ md.clickListeners <= MaxClickListeners
    /\ \E page \in md.pageButtons :
          md' = [renderPagination(renderMembers(
                    [md EXCEPT !.currentPage = page, !.lastOp = "goToPage",
                               !.fromPage = md.currentPage,
                               !.lastEvent = "page", !.hadDependents = FALSE]))
                    EXCEPT !.goToPageCalls = md.clickListeners,
                           !.clickListeners = md.clickListeners + md.clickListeners]
    /\ UNCHANGED membersRest

\* A change of the category select of the blog: filterPosts, whose
\* renderPagination adds its listener.
categoryChangeRegisters ==
    /\ blog.phase = "ready"
    /\ blog.clickListeners < MaxClickListeners
    /\ \E value \in CategoryValues :
          blog' = addPaginationListener(filterPosts([blog EXCEPT !.currentCategory = value]))
    /\ UNCHANGED blogRest

\* A click on a button of the blog pagination.
blogPaginationClick ==
    /\ blog.phase = "ready"
    /\ blog.pagination > 0
    /\ blog.clickListeners > 0
    /\ blog.clickListeners <= MaxClickListeners
    /\ \E page \in blog.pageButtons :
          blog' = [blogRenderPagination(renderPosts(
                    [blog EXCEPT !.currentPage = page, !.lastOp = "goToPage",
                                 !.fromPage = blog.currentPage]))
                    EXCEPT !.goToPageCalls = blog.clickListeners,
                           !.clickListeners = blog.clickListeners + blog.clickListeners]
    /\ UNCHANGED blogRest

NextPagination ==
    \/ MembersDirectoryInit
    \/ filterChangeRegisters
    \/ paginationClick
    \/ BlogSystemInit
    \/ categoryChangeRegisters
    \/ blogPaginationClick

SpecPagination == InitListings /\ [][NextPagination]_vars

\* C36: a click on a pagination button of the members directory or of the
\* blog calls goToPage exactly once, and the click listeners on the
\* pagination container do not accumulate.
C36_OneClickOnePageChange ==
    /\ md.lastOp = "goToPage" => md.goToPageCalls = 1
    /\ blog.lastOp = "goToPage" => blog.goToPageCalls = 1
    /\ md.clickListeners <= 1
    /\ blog.clickListeners <= 1


\* C37: a search issued while the index is being loaded (no structure
\* built yet, isLoading true) never shows the error state: it waits for
\* the load.
C37_SearchWaitsForLoad ==
    [][(/\ search.isLoading
        /\ ~search.fuse.built
        /\ search.timers > 0
        /\ search'.timers = search.timers - 1
        /\ search'.runs = search.runs + 1)
          => search'.shown.kind # "error"]_vars


\* ---------------------------------------------------------------------
\* Page start-up: assets/js/partials.js (PartialsLoader) and
\* assets/js/main.js (ScriptySphereApp.init and waitForPartials).
\* ---------------------------------------------------------------------

\* The [data-include] elements of the pages: a page with a header and the
\* same call-to-action partial twice, one without a header, one with the
\* header alone.
PageIncludes ==
    { <<"header", "cta", "cta">>, <<"cta", "cta">>, <<"header">> }

\* How a fetch of /partials/<name>.html ends: response.ok, a response that
\* is not ok, or a rejected fetch.
PartialOutcomes == {"ok", "notok", "networkError"}

\* An element of the page that includes the partial name and holds no
\* markup yet.
IncludeElement(name) == [name |-> name, pc |-> "idle", html |-> "none"]

\* document.querySelector('.header'): the header partial's markup is in the
\* page.
headerPresent(b) ==
    \E i \in 1..Len(b.elements) : b.elements[i].html = "header"

\* The number of the first i elements that include the given name and have
\* a fetch under way.
RECURSIVE startedFor(_, _, _)
startedFor(els, name, i) ==
    IF i = 0 THEN 0
    ELSE startedFor(els, name, i - 1)
         + (IF els[i].name = name /\ els[i].pc = "fetching" THEN 1 ELSE 0)

\* loadPartials up to the first await of every callback of the map: each
\* callback tests this.cache.has(partialName) and starts its own fetch on a
\* miss; on a hit it assigns the cached markup to the element at once.
loadPartials(b) ==
    LET els == [i \in 1..Len(b.elements) |->
                   IF b.elements[i].name \in b.cache
                   THEN [b.elements[i] EXCEPT !.pc = "done",
                                              !.html = b.elements[i].name]
                   ELSE [b.elements[i] EXCEPT !.pc = "fetching"]]
    IN  [b EXCEPT !.elements = els,
                  !.fetches = [name \in PartialNames |->
                                  b.fetches[name]
                                  + startedFor(els, name, Len(els))],
                  !.loads = b.loads + 1]

\* The rest of one callback of the map, once its fetch has settled: an ok
\* response is stored in the cache and assigned to the element; any other
\* outcome is logged and the element is left as it was.
partialSettles(b, i, outcome) ==
    IF outcome = "ok"
    THEN [b EXCEPT !.cache = b.cache \cup {b.elements[i].name},
                   !.elements[i].pc = "done",
                   !.elements[i].html = b.elements[i].name]
    ELSE [b EXCEPT !.elements[i].pc = "failed"]

\* Everything but boot is left alone.
bootRest ==
    <<ev, responded, swState, install, activation, caches, dynFill, netVer,
      req, bg, done, nEvents, md, blog, lang, search, forms, tr, an, tm, store>>

\* new PartialsLoader() at DOMContentLoaded: an empty cache, then init, which
\* calls loadPartials.
PartialsLoaderConstructor ==
    /\ boot.loader = "absent"
    /\ \E page \in PageIncludes :
          boot' = [loadPartials(
                      [boot EXCEPT !.elements =
                          [i \in 1..Len(page) |-> IncludeElement(page[i])]])
                   EXCEPT !.loader = "loading"]
    /\ UNCHANGED bootRest

\* The fetch of one element settles and its callback runs to its end; when
\* it was the last one, Promise.all resolves and init goes on.
partialResponse ==
    /\ boot.loader = "loading"
    /\ \E i \in 1..Len(boot.elements), outcome \in PartialOutcomes :
          /\ boot.elements[i].pc = "fetching"
          /\ LET b == partialSettles(boot, i, outcome)
             IN  boot' = [b EXCEPT !.loader =
                             IF \E k \in 1..Len(b.elements) :
                                    b.elements[k].pc = "fetching"
                             THEN "loading" ELSE "ready"]
    /\ UNCHANGED bootRest

\* waitForPartials up to the return of its promise: resolved at once when the
\* header is present, otherwise the polling timer and the timeout are set.
waitForPartials(b) ==
    IF headerPresent(b)
    THEN [b EXCEPT !.app = "resolved", !.resolvedBy = "header"]
    ELSE [b EXCEPT !.app = "waiting", !.interval = TRUE, !.timeout = TRUE]

\* The callback of setInterval: clearInterval and resolve when the header
\* is present, nothing otherwise.
checkPartials(b) ==
    IF headerPresent(b)
    THEN [b EXCEPT !.interval = FALSE,
                   !.app = IF b.app = "waiting" THEN "resolved" ELSE b.app,
                   !.resolvedBy = IF b.app = "waiting" THEN "poll"
                                  ELSE b.resolvedBy]
    ELSE b

\* The callback of setTimeout that clears the polling timer and does not
\* resolve.
timeoutCallbackNoResolve(b) ==
    [b EXCEPT !.timeout = FALSE, !.interval = FALSE]

\* The callback of setTimeout(..., 5000): clearInterval and resolve; resolve
\* on a promise already resolved does nothing.
timeoutCallback(b) ==
    [b EXCEPT !.timeout = FALSE,
              !.interval = FALSE,
              !.app = IF b.app = "waiting" THEN "resolved" ELSE b.app,
              !.resolvedBy = IF b.app = "waiting" THEN "timeout"
                             ELSE b.resolvedBy]

\* new ScriptySphereApp() at DOMContentLoaded: isLoaded = false, then init up
\* to its await of waitForPartials.
ScriptySphereAppConstructor ==
    /\ boot.app = "absent"
    /\ boot' = waitForPartials([boot EXCEPT !.isLoaded = FALSE])
    /\ UNCHANGED bootRest

\* The polling timer fires (every 100 ms while it is set).
intervalTick ==
    /\ boot.interval
    /\ boot' = checkPartials(boot)
    /\ UNCHANGED bootRest

\* The 5-second timeout fires.
timeoutFires ==
    /\ boot.timeout
    /\ boot' = timeoutCallback(boot)
    /\ UNCHANGED bootRest

\* init after its await: the init helpers, isLoaded = true and the dispatch
\* of 'appLoaded'.
appInitContinues ==
    /\ boot.app = "resolved"
    /\ boot' = [boot EXCEPT !.app = "loaded", !.isLoaded = TRUE,
                            !.appLoaded = boot.appLoaded + 1]
    /\ UNCHANGED bootRest

InitBoot ==
    /\ Init
    /\ boot = NoBoot

NextBoot ==
    \/ PartialsLoaderConstructor
    \/ partialResponse
    \/ ScriptySphereAppConstructor
    \/ intervalTick
    \/ timeoutFires
    \/ appInitContinues

SpecBoot == InitBoot /\ [][NextBoot]_vars

\* Timers that are set fire, and a resolved promise lets its awaiting
\* function go on.
SpecBootFair ==
    /\ SpecBoot
    /\ WF_vars(intervalTick)
    /\ WF_vars(timeoutFires)
    /\ WF_vars(appInitContinues)

\* C38: each distinct partial name is fetched at most once by one
\* PartialsLoader, however many elements include it, and every element whose
\* partial loaded successfully holds that partial's markup.
C38_PartialFetchedOnce ==
    /\ \A name \in PartialNames : boot.fetches[name] <= 1
    /\ \A i \in 1..Len(boot.elements) :
          boot.elements[i].pc = "done" =>
              boot.elements[i].html = boot.elements[i].name

\* The second half of C38 alone: an element whose load succeeded holds its
\* markup.
LoadedElementsHoldMarkup ==
    \A i \in 1..Len(boot.elements) :
        boot.elements[i].pc = "done" =>
            boot.elements[i].html = boot.elements[i].name

\* C39: waitForPartials resolves in every execution, after which init sets
\* isLoaded and dispatches 'appLoaded' once; once it has resolved the polling
\* timer is stopped, whether the header or the timeout resolved it.
C39_WaitForPartialsResolves ==
    /\ [](boot.app \in {"resolved", "loaded"} => ~boot.interval)
    /\ [](boot.isLoaded <=> boot.app = "loaded")
    /\ [](boot.appLoaded = (IF boot.isLoaded THEN 1 ELSE 0))
    /\ (boot.app = "waiting" ~> boot.isLoaded)
    /\ (boot.app = "resolved" ~> boot.isLoaded)

\* C39 witness: the header never appeared, the timeout resolved the wait,
\* and the application is loaded with the polling timer stopped.
C39_LoadedByTimeout ==
    /\ boot.isLoaded
    /\ boot.resolvedBy = "timeout"
    /\ ~headerPresent(boot)
    /\ ~boot.interval

=============================================================================
